---- MODULE Spec2Model ----
(***************************************************************************)
(* State-machine model of app/utils/concurrency.py: SemaphoreLimiter,      *)
(* RateLimiter and MessageQueue, as they run on one asyncio event loop.    *)
(*                                                                         *)
(* Scheduling is cooperative: the event loop runs one coroutine at a time  *)
(* and another coroutine runs only when the running one suspends at an     *)
(* await that really has to wait.  `current` is the task the loop is       *)
(* executing (NoTask between two tasks).                                   *)
(*                                                                         *)
(* The second half models the text functions of the price pipeline, which  *)
(* keep no state between calls: PriceParser.parse, _evaluate_expression    *)
(* and _safe_eval of app/services/price_parser.py, and clean_message_text  *)
(* of app/bot/handler.py.  A text is a sequence of characters.             *)
(***************************************************************************)
EXTENDS Integers, Sequences, FiniteSets, TLC

\* ------------------------------------------------------------------------
\* Bounds of the model
\* ------------------------------------------------------------------------
NumTasks == 3
MaxConcurrent == 2
MaxAcquires == 4
\* RateLimiter(max_requests, time_window), the clock's range, and the number
\* of is_allowed() calls of a run
MaxRequests == 2
TimeWindow == 2
MaxTime == 4
MaxCalls == 4
\* MessageQueue(max_size, workers), and the number of put() calls of a run
MaxQueueSize == 2
NumWorkers == 2
MaxPuts == 4

NoTask == 0
Tasks == 1..NumTasks

VARIABLES
    current,          \* the task the event loop is executing, or NoTask
    \* SemaphoreLimiter
    semaphore,        \* asyncio.Semaphore._value: free permits
    active_count,
    total_requests,
    sem_lock,         \* holder of SemaphoreLimiter.lock, or NoTask
    sem_pc,           \* per task: its position in acquire()/release()
    sem_waiters,      \* asyncio.Semaphore._waiters: the tasks in acquire(), oldest first
    sem_exc,          \* per task: the protected section raised
    sem_failed,       \* number of protected sections that ended by an exception
    \* RateLimiter
    now,              \* the clock, time.time()
    requests,         \* RateLimiter.requests: per key, the deque of timestamps
    rl_pc,            \* per caller: its position in is_allowed()
    rl_key,           \* per caller: the key of its call in progress
    rl_now,           \* per caller: is_allowed()'s local `now`
    rl_log,           \* history: the is_allowed() calls that returned, in order
    rl_last,          \* history: per key, the clock value its last call used
    \* MessageQueue
    queue,            \* MessageQueue.queue: the queued items, oldest first
    running,
    worker_tasks,     \* the workers whose task is in MessageQueue.worker_tasks
    processed_count,
    dropped_count,
    w_pc,             \* per worker: the position of its _worker() task
    w_item,           \* per worker: the item its handler is running on, or NoItem
    w_cancel,         \* per worker: task.cancel() was called, CancelledError is due
    stop_pc,          \* the position of the stop() call
    put_count,        \* history: number of items passed to put()
    fate,             \* history: per item, what has become of it
    handler_of,       \* history: per item, the worker that dequeued it, or NoTask
    \* PriceParser.parse
    p_text,           \* the text of the parse() call that returned last
    p_result,         \* the PriceParseResult it returned, or NoResult
    p_after_fail,     \* history: an earlier parse() met a division by zero
    \* PriceParser._safe_eval
    e_expr,           \* the expression of the _safe_eval() call that returned last
    e_value,          \* what it returned: a number, None, or NotCalled
    \* clean_message_text
    c_text,           \* the text of the clean_message_text() call that returned last
    c_out,            \* what it returned, or NotCalled
    \* DatabaseService
    groups,           \* table groups: per chat, the committed Group row, or None
    orders,           \* table orders: the messages whose Order row is committed
    transactions,     \* table transactions: the messages whose Transaction row is committed
    db_writer,        \* the message whose session holds the write lock, or NoTask
    h_pc,             \* per message: the position of its handler
    h_req,            \* per message: what it asks for (chat, type, amount)
    h_group           \* per message: the Group object of its session, or None

loopVars == <<current>>

semVars == <<semaphore, active_count, total_requests, sem_lock,
             sem_pc, sem_waiters, sem_exc, sem_failed>>

rlVars == <<now, requests, rl_pc, rl_key, rl_now, rl_log, rl_last>>

mqVars == <<queue, running, worker_tasks, processed_count, dropped_count,
            w_pc, w_item, w_cancel, stop_pc, put_count, fate, handler_of>>

parseVars == <<p_text, p_result, p_after_fail>>

evalVars == <<e_expr, e_value>>

cleanVars == <<c_text, c_out>>

txtVars == <<parseVars, evalVars, cleanVars>>

dbVars == <<groups, orders, transactions, db_writer, h_pc, h_req, h_group>>

vars == <<loopVars, semVars, rlVars, mqVars, txtVars, dbVars>>

\* What a step of one component leaves alone: the other components.
notSem == <<rlVars, mqVars, txtVars, dbVars>>
notRL == <<semVars, mqVars, txtVars, dbVars>>
notMQ == <<loopVars, semVars, rlVars, txtVars, dbVars>>
notParse == <<loopVars, semVars, rlVars, mqVars, evalVars, cleanVars, dbVars>>
notEval == <<loopVars, semVars, rlVars, mqVars, parseVars, cleanVars, dbVars>>
notClean == <<loopVars, semVars, rlVars, mqVars, parseVars, evalVars, dbVars>>
notDB == <<loopVars, semVars, rlVars, mqVars, txtVars>>

\* ------------------------------------------------------------------------
\* The event loop
\* ------------------------------------------------------------------------
\* Task t may take a step: it is the running task, or no task is running and
\* the loop picks it.
Runnable(t) == current \in {NoTask, t}

\* ------------------------------------------------------------------------
\* SemaphoreLimiter
\* ------------------------------------------------------------------------
\* __init__: asyncio.Semaphore(max_concurrent)
InitialPermitsOffByOne == MaxConcurrent + 1
InitialPermits == MaxConcurrent

\* The positions at which a task using the limiter is suspended and the
\* loop may run another task: waiting for a permit in semaphore.acquire(),
\* inside the protected section, and outside the limiter.  `async with
\* self.lock` never waits: the lock is only held across statements that do
\* not await, so it is free whenever a task reaches it.
SemSuspendsAtEveryAwait(p) == TRUE
SemSuspendsAt(p) == p \in {"idle", "acq_wait", "held"}

\* __aexit__: release() is called whatever exc_type is.
AexitReleasesOnSuccessOnly(exc) == ~exc
AexitReleases(exc) == TRUE

LoopInit == current = NoTask

SemInit ==
    /\ semaphore = InitialPermits
    /\ active_count = 0
    /\ total_requests = 0
    /\ sem_lock = NoTask
    /\ sem_pc = [t \in Tasks |-> "idle"]
    /\ sem_waiters = <<>>
    /\ sem_exc = [t \in Tasks |-> FALSE]
    /\ sem_failed = 0

SemStarted ==
    Cardinality({t \in Tasks :
                    sem_pc[t] \in {"acq_wait", "acq_woken", "acq_lock", "acq_count"}})

\* asyncio.Semaphore._wake_up_next(): the first waiter whose future is not
\* done, or NoTask.  A waiter that was woken stays in _waiters until it
\* resumes.
FirstWaiterNone(pcs, waiters) == NoTask
FirstWaiter(pcs, waiters) ==
    LET waiting == {n \in DOMAIN waiters : pcs[waiters[n]] = "acq_wait"}
    IN  IF waiting = {} THEN NoTask
        ELSE waiters[CHOOSE n \in waiting : \A m \in waiting : n <= m]

\* asyncio.Semaphore.locked(): no permit is free, or a task is in _waiters
Locked == semaphore = 0 \/ sem_waiters # <<>>

\* acquire(), line 40: await self.semaphore.acquire().  With a free permit
\* and nobody waiting the call takes it and goes on; otherwise the task
\* joins the waiters.
SemaphoreAcquire(t) ==
    /\ UNCHANGED notSem
    /\ Runnable(t)
    /\ sem_pc[t] = "idle"
    /\ total_requests + SemStarted < MaxAcquires
    /\ current' = t
    /\ IF ~Locked
       THEN /\ semaphore' = semaphore - 1
            /\ sem_pc' = [sem_pc EXCEPT ![t] = "acq_lock"]
            /\ sem_waiters' = sem_waiters
       ELSE /\ semaphore' = semaphore
            /\ sem_pc' = [sem_pc EXCEPT ![t] = "acq_wait"]
            /\ sem_waiters' = Append(sem_waiters, t)
    /\ UNCHANGED <<active_count, total_requests, sem_lock, sem_exc, sem_failed>>

\* A waiter that release() has woken, handing it the permit, resumes in
\* semaphore.acquire(): it leaves the waiters and, if a permit is free,
\* wakes the next one.
SemaphoreWake(t) ==
    /\ UNCHANGED notSem
    /\ Runnable(t)
    /\ sem_pc[t] = "acq_woken"
    /\ current' = t
    /\ LET rest == SelectSeq(sem_waiters, LAMBDA u : u # t)
           next == IF semaphore > 0 THEN FirstWaiter(sem_pc, rest) ELSE NoTask
       IN /\ sem_waiters' = rest
          /\ semaphore' = IF next # NoTask THEN semaphore - 1 ELSE semaphore
          /\ sem_pc' = [u \in Tasks |->
                           IF u = t THEN "acq_lock"
                           ELSE IF u = next THEN "acq_woken"
                           ELSE sem_pc[u]]
    /\ UNCHANGED <<active_count, total_requests, sem_lock, sem_exc, sem_failed>>

\* acquire(), line 41: async with self.lock
AcquireLock(t) ==
    /\ UNCHANGED notSem
    /\ Runnable(t)
    /\ sem_pc[t] = "acq_lock"
    /\ sem_lock = NoTask
    /\ current' = t
    /\ sem_lock' = t
    /\ sem_pc' = [sem_pc EXCEPT ![t] = "acq_count"]
    /\ UNCHANGED <<semaphore, active_count, total_requests, sem_waiters, sem_exc,
                   sem_failed>>

\* acquire(), lines 42-43, and the lock's release; acquire() returns.
AcquireCount(t) ==
    /\ UNCHANGED notSem
    /\ Runnable(t)
    /\ sem_pc[t] = "acq_count"
    /\ current' = t
    /\ active_count' = active_count + 1
    /\ total_requests' = total_requests + 1
    /\ sem_lock' = NoTask
    /\ sem_pc' = [sem_pc EXCEPT ![t] = "held"]
    /\ UNCHANGED <<semaphore, sem_waiters, sem_exc, sem_failed>>

\* The protected section ends, normally or by an exception (exc);
\* __aexit__ calls release(), whose line 47 is self.semaphore.release(): the
\* permit goes to the first waiter that is not yet woken, or becomes free.
SectionExit(t, exc) ==
    /\ UNCHANGED notSem
    /\ Runnable(t)
    /\ sem_pc[t] = "held"
    /\ current' = t
    /\ sem_exc' = [sem_exc EXCEPT ![t] = exc]
    /\ sem_failed' = IF exc THEN sem_failed + 1 ELSE sem_failed
    /\ IF AexitReleases(exc)
       THEN LET next == FirstWaiter(sem_pc, sem_waiters)
            IN /\ semaphore' = IF next # NoTask THEN semaphore ELSE semaphore + 1
               /\ sem_pc' = [u \in Tasks |->
                                IF u = t THEN "rel_lock"
                                ELSE IF u = next THEN "acq_woken"
                                ELSE sem_pc[u]]
       ELSE /\ semaphore' = semaphore
            /\ sem_pc' = [sem_pc EXCEPT ![t] = "idle"]
    /\ UNCHANGED <<active_count, total_requests, sem_lock, sem_waiters>>

\* release(), line 48: async with self.lock
ReleaseLock(t) ==
    /\ UNCHANGED notSem
    /\ Runnable(t)
    /\ sem_pc[t] = "rel_lock"
    /\ sem_lock = NoTask
    /\ current' = t
    /\ sem_lock' = t
    /\ sem_pc' = [sem_pc EXCEPT ![t] = "rel_count"]
    /\ UNCHANGED <<semaphore, active_count, total_requests, sem_waiters, sem_exc,
                   sem_failed>>

\* release(), line 49, and the lock's release; release() returns and the
\* section's exception, if any, goes on to the caller.
ReleaseCount(t) ==
    /\ UNCHANGED notSem
    /\ Runnable(t)
    /\ sem_pc[t] = "rel_count"
    /\ current' = t
    /\ active_count' = active_count - 1
    /\ sem_lock' = NoTask
    /\ sem_pc' = [sem_pc EXCEPT ![t] = "idle"]
    /\ UNCHANGED <<semaphore, total_requests, sem_waiters, sem_exc, sem_failed>>

\* The running task suspends and the loop is free to run another one.
SemYield(t) ==
    /\ UNCHANGED notSem
    /\ current = t
    /\ SemSuspendsAt(sem_pc[t])
    /\ current' = NoTask
    /\ UNCHANGED <<semaphore, active_count, total_requests, sem_lock, sem_pc,
                   sem_waiters, sem_exc, sem_failed>>

SemNext ==
    \E t \in Tasks :
        \/ SemaphoreAcquire(t)
        \/ SemaphoreWake(t)
        \/ AcquireLock(t)
        \/ AcquireCount(t)
        \/ \E exc \in BOOLEAN : SectionExit(t, exc)
        \/ ReleaseLock(t)
        \/ ReleaseCount(t)
        \/ SemYield(t)

\* ------------------------------------------------------------------------
\* SemaphoreLimiter: properties
\* ------------------------------------------------------------------------
\* The tasks between a returned acquire() and their call of release().
SemHolders == {t \in Tasks : sem_pc[t] = "held"}

\* The tasks that own a permit of the semaphore: from semaphore.acquire()
\* having taken it, or release() having handed it to the waiter, to
\* semaphore.release().
SemPermitOwners ==
    {t \in Tasks : sem_pc[t] \in {"acq_woken", "acq_lock", "acq_count", "held"}}

\* C1: at most max_concurrent tasks are ever between a returned acquire()
\* and their matching release(); and while max_concurrent tasks are there,
\* no further acquire() returns: the set of holders can only shrink (a
\* holder calling release()) before another task joins it.
C1_BoundedHolders ==
    /\ [](Cardinality(SemHolders) <= MaxConcurrent)
    /\ [][Cardinality(SemHolders) = MaxConcurrent
            => SemHolders' \subseteq SemHolders]_vars

\* C1 witness: all permits are held and a further acquire() is waiting.
C1_Witness ==
    /\ Cardinality(SemHolders) = MaxConcurrent
    /\ \E t \in Tasks : sem_pc[t] = "acq_wait"

\* C2: 0 <= active_count <= max_concurrent in every state, the states
\* between the semaphore operation and the counter update included.
C2_ActiveCountInRange ==
    /\ 0 <= active_count
    /\ active_count <= MaxConcurrent

\* C2 witness: release() has returned the permit to the semaphore and has
\* not yet decremented active_count, which still shows max_concurrent,
\* while another task is in semaphore.acquire(), waiting or just woken.
C2_Witness ==
    /\ active_count = MaxConcurrent
    /\ \E t \in Tasks : sem_pc[t] = "rel_lock"
    /\ \E u \in Tasks : sem_pc[u] \in {"acq_wait", "acq_woken"}

\* C3: every exit of a protected section, normal or by an exception, gives
\* its permit back: the free permits and the permits owned always add up to
\* max_concurrent, and once every section has exited active_count is 0 and
\* all max_concurrent permits are free.
C3_ScopedRelease ==
    /\ semaphore + Cardinality(SemPermitOwners) = MaxConcurrent
    /\ (\A t \in Tasks : sem_pc[t] = "idle")
          => (active_count = 0 /\ semaphore = MaxConcurrent)

\* C3 witness: sections have run, some ended by an exception and some
\* normally, and all have exited.
C3_Witness ==
    /\ \A t \in Tasks : sem_pc[t] = "idle"
    /\ sem_failed >= 1
    /\ total_requests > sem_failed

\* ------------------------------------------------------------------------
\* RateLimiter
\* ------------------------------------------------------------------------
Keys == {7, 9}
Callers == {1, 2}
max_requests == MaxRequests
time_window == TimeWindow

\* lines 94 and 112: requests[0] < now - self.time_window
ExpiredAtWindowEdge(ts, t) == ts <= t - time_window
ExpiredNever(ts, t) == FALSE
Expired(ts, t) == ts < t - time_window

\* lines 94-95 and 112-113: while requests and requests[0] is expired:
\* requests.popleft()
RECURSIVE Prune(_, _)
Prune(reqs, t) ==
    IF reqs # <<>> /\ Expired(Head(reqs), t)
    THEN Prune(Tail(reqs), t)
    ELSE reqs

\* line 98: len(requests) >= self.max_requests
OverLimitOffByOne(n) == n > max_requests
OverLimit(n) == n >= max_requests

\* is_allowed() suspends nowhere between reading the clock and returning:
\* self.lock is never held across an await, so `async with self.lock` never
\* waits.  A caller is suspended only outside the call.
RLSuspendsAtEveryAwait(p) == TRUE
RLSuspendsAt(p) == p = "idle"

RLInit ==
    /\ now = 0
    /\ requests = [k \in Keys |-> <<>>]
    /\ rl_pc = [t \in Callers |-> "idle"]
    /\ rl_key = [t \in Callers |-> 0]
    /\ rl_now = [t \in Callers |-> 0]
    /\ rl_log = <<>>
    /\ rl_last = [k \in Keys |-> 0]

RLCallsStarted == Len(rl_log) + Cardinality({t \in Callers : rl_pc[t] = "ia_lock"})

\* is_allowed(key), line 88: now = time.time()
IsAllowedReadClock(t, k) ==
    /\ UNCHANGED notRL
    /\ Runnable(t)
    /\ rl_pc[t] = "idle"
    /\ RLCallsStarted < MaxCalls
    /\ current' = t
    /\ rl_pc' = [rl_pc EXCEPT ![t] = "ia_lock"]
    /\ rl_key' = [rl_key EXCEPT ![t] = k]
    /\ rl_now' = [rl_now EXCEPT ![t] = now]
    /\ UNCHANGED <<now, requests, rl_log, rl_last>>

\* is_allowed(key), lines 90-104, under self.lock: prune the key's history,
\* deny when it is at the limit, otherwise record `now` and allow.
IsAllowedLocked(t) ==
    /\ UNCHANGED notRL
    /\ Runnable(t)
    /\ rl_pc[t] = "ia_lock"
    /\ current' = t
    /\ LET k == rl_key[t]
           pruned == Prune(requests[k], rl_now[t])
           denied == OverLimit(Len(pruned))
       IN /\ requests' = [requests EXCEPT
                 ![k] = IF denied THEN pruned ELSE Append(pruned, rl_now[t])]
          /\ rl_log' = Append(rl_log,
                 [key |-> k, time |-> rl_now[t], ok |-> ~denied,
                  fresh |-> (requests[k] = <<>>)])
          /\ rl_last' = [rl_last EXCEPT ![k] = rl_now[t]]
    /\ rl_pc' = [rl_pc EXCEPT ![t] = "idle"]
    /\ rl_key' = [rl_key EXCEPT ![t] = 0]
    /\ rl_now' = [rl_now EXCEPT ![t] = 0]
    /\ UNCHANGED now

\* The value get_remaining(key) returns for a pruned history, line 114.
Remaining(pruned) == max_requests - Len(pruned)

\* get_remaining(key), lines 108-114, under self.lock: read the clock, prune
\* the key's history, return max_requests - len(requests).
GetRemainingRecording(t, k) ==
    /\ UNCHANGED notRL
    /\ Runnable(t)
    /\ rl_pc[t] = "idle"
    /\ current' = t
    /\ requests' = [requests EXCEPT ![k] = Append(Prune(requests[k], now), now)]
    /\ rl_last' = [rl_last EXCEPT ![k] = now]
    /\ UNCHANGED <<now, rl_pc, rl_key, rl_now, rl_log>>
GetRemaining(t, k) ==
    /\ UNCHANGED notRL
    /\ Runnable(t)
    /\ rl_pc[t] = "idle"
    /\ current' = t
    /\ requests' = [requests EXCEPT ![k] = Prune(requests[k], now)]
    /\ rl_last' = [rl_last EXCEPT ![k] = now]
    /\ UNCHANGED <<now, rl_pc, rl_key, rl_now, rl_log>>

\* The running caller suspends and the loop is free to run another one.
RLYield(t) ==
    /\ UNCHANGED notRL
    /\ current = t
    /\ RLSuspendsAt(rl_pc[t])
    /\ current' = NoTask
    /\ UNCHANGED rlVars

\* Time passes.
Tick ==
    /\ UNCHANGED notRL
    /\ now < MaxTime
    /\ now' = now + 1
    /\ UNCHANGED <<current, requests, rl_pc, rl_key, rl_now, rl_log, rl_last>>

RLNext ==
    \/ \E t \in Callers :
        \/ \E k \in Keys : IsAllowedReadClock(t, k)
        \/ IsAllowedLocked(t)
        \/ \E k \in Keys : GetRemaining(t, k)
        \/ RLYield(t)
    \/ Tick

\* ------------------------------------------------------------------------
\* RateLimiter: properties
\* ------------------------------------------------------------------------
\* The is_allowed(k) calls that returned, in order.
KeyLog(k) == SelectSeq(rl_log, LAMBDA e : e.key = k)

\* The allowed calls of key k whose recorded time lies in [t - time_window, t].
AllowedIn(k, t) ==
    {i \in DOMAIN rl_log :
        /\ rl_log[i].key = k
        /\ rl_log[i].ok
        /\ t - time_window <= rl_log[i].time
        /\ rl_log[i].time <= t}

\* The allowed calls of key k.
Allowed(k) == {i \in DOMAIN rl_log : rl_log[i].key = k /\ rl_log[i].ok}

\* Calls i .. i + max_requests of L are max_requests + 1 calls on a key whose
\* history was empty, made within one time window.
Burst(L, i) ==
    /\ i + max_requests <= Len(L)
    /\ L[i].fresh
    /\ L[i + max_requests].time - L[i].time <= time_window

\* C4, as stated: of max_requests + 1 is_allowed(key) calls made within one
\* time window on a key with empty history, the first max_requests return
\* true and the last returns false; and the next call on the key, made once
\* the window has fully elapsed since those calls (time_window or more after
\* the last of them), returns true.
C4_AsStated ==
    \A k \in Keys :
        LET L == KeyLog(k)
            n == max_requests
        IN \A i \in 1..Len(L) :
              Burst(L, i) =>
                 /\ \A j \in i..(i + n - 1) : L[j].ok
                 /\ ~L[i + n].ok
                 /\ (i + n + 1 <= Len(L) /\ L[i + n + 1].time - L[i + n].time >= time_window)
                       => L[i + n + 1].ok

\* C4, amended: as above, with the next call made more than time_window
\* after the last of those calls.  (Exactly time_window after them their
\* timestamps are not yet expired, line 94 pruning only those below
\* now - time_window, and the call is still denied.)
C4_BurstDeniedThenAllowed ==
    \A k \in Keys :
        LET L == KeyLog(k)
            n == max_requests
        IN \A i \in 1..Len(L) :
              Burst(L, i) =>
                 /\ \A j \in i..(i + n - 1) : L[j].ok
                 /\ ~L[i + n].ok
                 /\ (i + n + 1 <= Len(L) /\ L[i + n + 1].time - L[i + n].time > time_window)
                       => L[i + n + 1].ok

\* C4 witness: such a burst has been made, its last call was denied, and a
\* call made more than time_window later was allowed.
C4_Witness ==
    \E k \in Keys :
        LET L == KeyLog(k)
            n == max_requests
        IN /\ Len(L) >= n + 2
           /\ Burst(L, 1)
           /\ ~L[n + 1].ok
           /\ L[n + 2].time - L[n + 1].time > time_window
           /\ L[n + 2].ok

\* C5: for every key and every instant t, at most max_requests allowed calls
\* have their recorded time in the trailing interval [t - time_window, t].
C5_SlidingWindowBound ==
    \A k \in Keys : \A t \in 0..(MaxTime + time_window) :
        Cardinality(AllowedIn(k, t)) <= max_requests

\* C5 witness: a key has a full window (max_requests allowed calls in it),
\* has had a call denied, and has been allowed again later.
C5_Witness ==
    \E k \in Keys :
        /\ \E t \in 0..MaxTime : Cardinality(AllowedIn(k, t)) = max_requests
        /\ \E i \in DOMAIN rl_log : rl_log[i].key = k /\ ~rl_log[i].ok
        /\ Cardinality(Allowed(k)) > max_requests

\* C6, as stated: every stored timestamp lies within [now - time_window, now].
C6_AsStated ==
    \A k \in Keys : \A i \in DOMAIN requests[k] :
        /\ now - time_window <= requests[k][i]
        /\ requests[k][i] <= now

\* C6, amended: every timestamp stored for a key lies within
\* [t - time_window, t], t being the clock value the key's last is_allowed()
\* or get_remaining() call used, and never exceeds the current time.  (As
\* time advances with no call on the key, its timestamps grow older than
\* now - time_window and stay stored until the next call on the key.)
C6_WithinWindowOfLastCall ==
    \A k \in Keys :
        /\ rl_last[k] <= now
        /\ \A i \in DOMAIN requests[k] :
              /\ rl_last[k] - time_window <= requests[k][i]
              /\ requests[k][i] <= rl_last[k]

\* C6 witness: a key's history has been pruned before and now holds a
\* timestamp older than now - time_window.
C6_Witness ==
    \E k \in Keys :
        /\ Len(requests[k]) >= 1
        /\ Cardinality(Allowed(k)) > Len(requests[k])
        /\ requests[k][1] < now - time_window

\* ------------------------------------------------------------------------
\* MessageQueue
\* ------------------------------------------------------------------------
\* An action below is everything a coroutine does from one suspension to
\* the next.  put() suspends nowhere: self.lock is never held across an
\* await, and queue.put() finds room, put() having made it.  A worker is
\* suspended in wait_for(queue.get()) ("polling") or inside handler(item)
\* ("handling"); stop() is suspended in asyncio.gather ("gathering").  The
\* hand-over of an item from queue.get() to handler(item) is one step: from
\* the moment the item has left the queue it counts as in the handler.
Workers == 1..NumWorkers
Items == 1..MaxPuts
NoItem == 0
max_size == MaxQueueSize

\* line 190: self.queue.full(); an asyncio.Queue of maxsize <= 0 is unbounded
\* and never full.
QueueFullAboveCapacity(q) == max_size > 0 /\ Len(q) > max_size
QueueFull(q) == max_size > 0 /\ Len(q) >= max_size

\* line 195: self.queue.get_nowait() removes the oldest item
EvictNothing(q) == q
EvictNewest(q) == SubSeq(q, 1, Len(q) - 1)
Evict(q) == Tail(q)

\* lines 174-178: processed_count is incremented after handler(item) has
\* returned, and not when it raised.
ProcessedAfterAnyOutcome(n, ok) == n + 1
ProcessedAfter(n, ok) == IF ok THEN n + 1 ELSE n

\* lines 169, 177-180: an Exception of the handler is caught and logged
\* inside the loop, which goes on to its next `while self.running` test.
AfterHandlerExceptionExit(run) == "done"
AfterHandlerException(run) == IF run THEN "polling" ELSE "done"

MQInit ==
    /\ queue = <<>>
    /\ running = FALSE
    /\ worker_tasks = {}
    /\ processed_count = 0
    /\ dropped_count = 0
    /\ w_pc = [w \in Workers |-> "none"]
    /\ w_item = [w \in Workers |-> NoItem]
    /\ w_cancel = [w \in Workers |-> FALSE]
    /\ stop_pc = "idle"
    /\ put_count = 0
    /\ fate = [i \in Items |-> "unput"]
    /\ handler_of = [i \in Items |-> NoTask]

\* start(handler), lines 151-155: the worker tasks are created; each runs to
\* its first wait_for(queue.get()).
Start ==
    /\ UNCHANGED notMQ
    /\ worker_tasks = {}
    /\ stop_pc = "idle"
    /\ running' = TRUE
    /\ worker_tasks' = Workers
    /\ w_pc' = [w \in Workers |-> "polling"]
    /\ UNCHANGED <<queue, processed_count, dropped_count, w_item, w_cancel,
                   stop_pc, put_count, fate, handler_of>>

\* put(item), lines 188-199: a full queue loses its oldest item, counted in
\* dropped_count; the item is enqueued.
Put ==
    /\ UNCHANGED notMQ
    /\ put_count < MaxPuts
    /\ LET item == put_count + 1
           full == QueueFull(queue)
           kept == IF full /\ queue # <<>> THEN Evict(queue) ELSE queue
           gone == IF full /\ queue # <<>>
                   THEN {i \in Items : \E n \in DOMAIN queue : queue[n] = i}
                        \ {i \in Items : \E n \in DOMAIN kept : kept[n] = i}
                   ELSE {}
       IN /\ put_count' = item
          /\ dropped_count' = IF full THEN dropped_count + 1 ELSE dropped_count
          /\ queue' = Append(kept, item)
          /\ fate' = [i \in Items |->
                        IF i = item THEN "queued"
                        ELSE IF i \in gone THEN "evicted"
                        ELSE fate[i]]
    /\ UNCHANGED <<running, worker_tasks, processed_count, w_pc, w_item,
                   w_cancel, stop_pc, handler_of>>

\* _worker, line 172: wait_for(queue.get()) returns the oldest item, and
\* line 174 calls handler(item), which runs to its first await.
WorkerGetNewest(w) ==
    /\ UNCHANGED notMQ
    /\ w_pc[w] = "polling"
    /\ ~w_cancel[w]
    /\ queue # <<>>
    /\ LET item == queue[Len(queue)]
       IN /\ queue' = SubSeq(queue, 1, Len(queue) - 1)
          /\ w_item' = [w_item EXCEPT ![w] = item]
          /\ fate' = [fate EXCEPT ![item] = "handling"]
          /\ handler_of' = [handler_of EXCEPT ![item] = w]
    /\ w_pc' = [w_pc EXCEPT ![w] = "handling"]
    /\ UNCHANGED <<running, worker_tasks, processed_count, dropped_count,
                   w_cancel, stop_pc, put_count>>
WorkerGet(w) ==
    /\ UNCHANGED notMQ
    /\ w_pc[w] = "polling"
    /\ ~w_cancel[w]
    /\ queue # <<>>
    /\ LET item == Head(queue)
       IN /\ queue' = Tail(queue)
          /\ w_item' = [w_item EXCEPT ![w] = item]
          /\ fate' = [fate EXCEPT ![item] = "handling"]
          /\ handler_of' = [handler_of EXCEPT ![item] = w]
    /\ w_pc' = [w_pc EXCEPT ![w] = "handling"]
    /\ UNCHANGED <<running, worker_tasks, processed_count, dropped_count,
                   w_cancel, stop_pc, put_count>>

\* _worker, lines 174-180 and 169: handler(item) returns (ok) or raises an
\* Exception (~ok); the worker counts, calls task_done() and tests
\* self.running for its next round.
HandlerEnds(w, ok) ==
    /\ UNCHANGED notMQ
    /\ w_pc[w] = "handling"
    /\ ~w_cancel[w]
    /\ processed_count' = ProcessedAfter(processed_count, ok)
    /\ fate' = [fate EXCEPT ![w_item[w]] = IF ok THEN "processed" ELSE "failed"]
    /\ w_item' = [w_item EXCEPT ![w] = NoItem]
    /\ w_pc' = [w_pc EXCEPT ![w] =
                   IF ok
                   THEN (IF running THEN "polling" ELSE "done")
                   ELSE AfterHandlerException(running)]
    /\ UNCHANGED <<queue, running, worker_tasks, dropped_count, w_cancel,
                   stop_pc, put_count, handler_of>>

\* stop(), lines 159-162: running = False, task.cancel() for every worker
\* task, then await asyncio.gather(...).
Stop ==
    /\ UNCHANGED notMQ
    /\ stop_pc = "idle"
    /\ running' = FALSE
    /\ w_cancel' = [w \in Workers |-> w \in worker_tasks /\ w_pc[w] # "done"]
    /\ stop_pc' = "gathering"
    /\ UNCHANGED <<queue, worker_tasks, processed_count, dropped_count, w_pc,
                   w_item, put_count, fate, handler_of>>

\* A cancelled worker resumes with CancelledError raised at its await: in
\* wait_for(queue.get()), or inside handler(item).  CancelledError is not an
\* Exception: lines 177 and 183 do not catch it, line 180 runs, and the task
\* ends with the handler's invocation abandoned.
WorkerCancelled(w) ==
    /\ UNCHANGED notMQ
    /\ w_cancel[w]
    /\ w_pc[w] \in {"polling", "handling"}
    /\ fate' = IF w_pc[w] = "handling"
               THEN [fate EXCEPT ![w_item[w]] = "cancelled"]
               ELSE fate
    /\ w_item' = [w_item EXCEPT ![w] = NoItem]
    /\ w_cancel' = [w_cancel EXCEPT ![w] = FALSE]
    /\ w_pc' = [w_pc EXCEPT ![w] = "done"]
    /\ UNCHANGED <<queue, running, worker_tasks, processed_count, dropped_count,
                   stop_pc, put_count, handler_of>>

\* stop(), lines 162-164: gather returns once every worker task has ended;
\* worker_tasks.clear().
StopReturnsAtOnce ==
    /\ UNCHANGED notMQ
    /\ stop_pc = "gathering"
    /\ worker_tasks' = {}
    /\ stop_pc' = "returned"
    /\ UNCHANGED <<queue, running, processed_count, dropped_count, w_pc, w_item,
                   w_cancel, put_count, fate, handler_of>>
StopReturns ==
    /\ UNCHANGED notMQ
    /\ stop_pc = "gathering"
    /\ \A w \in worker_tasks : w_pc[w] = "done"
    /\ worker_tasks' = {}
    /\ stop_pc' = "returned"
    /\ UNCHANGED <<queue, running, processed_count, dropped_count, w_pc, w_item,
                   w_cancel, put_count, fate, handler_of>>

MQNext ==
    \/ Start
    \/ Put
    \/ \E w \in Workers :
        \/ WorkerGet(w)
        \/ \E ok \in BOOLEAN : HandlerEnds(w, ok)
        \/ WorkerCancelled(w)
    \/ Stop
    \/ StopReturns

\* ------------------------------------------------------------------------
\* MessageQueue: properties
\* ------------------------------------------------------------------------
\* The items with one of the given fates.
ItemsWith(fates) == {i \in Items : fate[i] \in fates}

\* No worker has dequeued an item so far.
NoDequeue == \A i \in Items : handler_of[i] = NoTask

\* The workers whose loop is alive.
LiveWorkers == {w \in Workers : w_pc[w] \in {"polling", "handling"}}

\* C7: with no worker dequeuing, after n put() calls the queue holds exactly
\* the min(n, M) most recently enqueued items in enqueue order (items are
\* numbered in put() order), and dropped_count = max(0, n - M).
C7_DropOldest ==
    NoDequeue =>
        LET n == put_count
            m == IF n <= max_size THEN n ELSE max_size
        IN /\ queue = [j \in 1..m |-> n - m + j]
           /\ dropped_count = IF n >= max_size THEN n - max_size ELSE 0

\* C7 witness: no worker has dequeued and two items more than the capacity
\* have been put.
C7_Witness ==
    /\ NoDequeue
    /\ put_count = max_size + 2
    /\ dropped_count = 2

\* C8, as stated: processed_count + dropped_count + queue_size equals the
\* number of items ever passed to put().
C8_AsStated ==
    processed_count + dropped_count + Len(queue) = put_count

\* C8, amended: processed_count + dropped_count + queue_size, plus the number
\* of items a worker has dequeued that are not counted as processed (their
\* handler is still running, raised, or was cancelled by stop()), equals the
\* number of items ever passed to put(); so the sum of the three counters
\* never exceeds that number.
C8_ConservationWithUncounted ==
    /\ processed_count + dropped_count + Len(queue)
          + Cardinality(ItemsWith({"handling", "failed", "cancelled"})) = put_count
    /\ processed_count = Cardinality(ItemsWith({"processed"}))
    /\ dropped_count = Cardinality(ItemsWith({"evicted"}))

\* C8 witness: items have been processed, dropped and left queued, and one
\* handler raised.
C8_Witness ==
    /\ processed_count >= 1
    /\ dropped_count >= 1
    /\ Len(queue) >= 1
    /\ ItemsWith({"failed"}) # {}

\* C9, as stated: a worker that exits while it is inside handler(item) has
\* let that invocation run to completion and counted the item as processed.
C9_AsStated ==
    [][\A w \in Workers :
          (w_pc[w] = "handling" /\ w_pc'[w] = "done")
             => processed_count' = processed_count + 1]_vars

\* C10: a handler's exception leaves its worker in the loop, polling for the
\* next item, and while running is true every worker started is alive,
\* whatever the number of handler failures.
C10_FailureContained ==
    /\ [](running => LiveWorkers = Workers)
    /\ [][\A w \in Workers :
            (w_pc[w] = "handling" /\ fate'[w_item[w]] = "failed")
               => (w_pc'[w] = "polling" /\ running')]_vars

\* C10 witness: a worker whose handler has raised twice is handling a later
\* item, with running true and every worker alive.
C10_Witness ==
    \E w \in Workers :
        /\ running
        /\ w_pc[w] = "handling"
        /\ Cardinality({i \in Items : handler_of[i] = w /\ fate[i] = "failed"}) >= 2
        /\ LiveWorkers = Workers

\* ========================================================================
\* Texts (app/services/price_parser.py, app/bot/handler.py)
\* ========================================================================
\* A text is a sequence of characters, a character a one-character string.
\* Characters outside ASCII are written by name: "zong" "he" "ji" "jia"
\* "jin" "e" are the ideographs of PRICE_KEYWORDS, "yuan" is an ideograph of
\* no keyword, "times" is the multiplication glyph U+00D7, "smile" is an
\* emoji.  "\n" is the newline.

\* Bounds of the text models: the lengths of the generated inputs
MaxBody == 3
MaxIntDigits == 2
MaxFracDigits == 3
MaxOps == 2
MaxExprLen == 3
MaxCleanLen == 4
\* number of fractional digits the model keeps of a float whose decimal
\* expansion does not end (str(float) keeps 17 significant digits)
ReprDigits == 4

\* Python's None, and the value of a variable before the call that sets it
None == [kind |-> "None"]
NotCalled == [kind |-> "not called"]
NoResult == [kind |-> "no result"]

\* a str that is the value of an optional field
Str(chars) == [kind |-> "str", chars |-> chars]

\* \d, within ASCII
Digits == <<"0", "1", "2", "3", "4", "5", "6", "7", "8", "9">>

IsDigit(c) == \E i \in 1..Len(Digits) : Digits[i] = c

DigitValue(c) == (CHOOSE i \in 1..Len(Digits) : Digits[i] = c) - 1

\* \s of the regular expressions and the characters str.strip() removes
IsSpace(c) == c \in {" ", "\n"}

\* The sequences over S of length at most n
BoundedSeq(S, n) == UNION {[1..m -> S] : m \in 0..n}

RECURSIVE Flatten(_)
Flatten(ss) == IF ss = <<>> THEN <<>> ELSE Head(ss) \o Flatten(Tail(ss))

\* str.replace(old, new) for a one-character old
Replace(s, old, new) == [i \in 1..Len(s) |-> IF s[i] = old THEN new ELSE s[i]]

\* str.replace(c, "")
Remove(s, c) == SelectSeq(s, LAMBDA ch : ch # c)

Contains(s, c) == \E i \in 1..Len(s) : s[i] = c

\* str.find(c, start): the first index of c at or after start, -1 if none.
\* Indices are Python's: the first character has index 0.
Find(s, c, start) ==
    IF \E i \in start..Len(s) - 1 : s[i + 1] = c
    THEN CHOOSE i \in start..Len(s) - 1 :
             /\ s[i + 1] = c
             /\ \A j \in start..i - 1 : s[j + 1] # c
    ELSE -1

\* str.rfind(c): the last index of c, -1 if none
FindFirst(s, c) == Find(s, c, 0)
RFind(s, c) ==
    IF Contains(s, c)
    THEN CHOOSE i \in 0..Len(s) - 1 :
             /\ s[i + 1] = c
             /\ \A j \in i + 1..Len(s) - 1 : s[j + 1] # c
    ELSE -1

\* the slice s[a:b] of Python
Slice(s, a, b) == SubSeq(s, a + 1, b)

\* str.strip()
Strip(s) ==
    LET solid == {i \in 1..Len(s) : ~IsSpace(s[i])}
    IN  IF solid = {} THEN <<>>
        ELSE SubSeq(s, CHOOSE i \in solid : \A j \in solid : i <= j,
                       CHOOSE i \in solid : \A j \in solid : j <= i)

\* ------------------------------------------------------------------------
\* Numbers.  A float is modelled by the rational number it stands for, in
\* lowest terms; the rounding error of binary floating point is not
\* modelled.  A Decimal is a coefficient and a number of fractional digits
\* (its scale); the sign of a zero is not modelled.
\* ------------------------------------------------------------------------
Abs(n) == IF n < 0 THEN -n ELSE n

RECURSIVE GCD(_, _)
GCD(a, b) == IF b = 0 THEN a ELSE GCD(b, a % b)

Float(n, d) ==
    LET g == GCD(Abs(n), d)
    IN  [kind |-> "float", num |-> n \div g, den |-> d \div g]

RECURSIVE Pow10(_)
Pow10(k) == IF k = 0 THEN 1 ELSE 10 * Pow10(k - 1)

\* the number a string of digits denotes; 0 for the empty string
RECURSIVE DigitsValue(_)
DigitsValue(ds) ==
    IF ds = <<>> THEN 0
    ELSE 10 * DigitsValue(SubSeq(ds, 1, Len(ds) - 1)) + DigitValue(ds[Len(ds)])

AllDigits(s) == \A i \in 1..Len(s) : IsDigit(s[i])

\* float(s) for a string over digits, signs and the point: an optional sign,
\* then digits with at most one point and at least one digit.  None stands
\* for the ValueError of any other string.
ParseFloat(s) ==
    LET signed == s # <<>> /\ s[1] \in {"+", "-"}
        body == IF signed THEN Tail(s) ELSE s
        dot == Find(body, ".", 0)
        ip == IF dot = -1 THEN body ELSE Slice(body, 0, dot)
        fp == IF dot = -1 THEN <<>> ELSE Slice(body, dot + 1, Len(body))
        n == DigitsValue(ip) * Pow10(Len(fp)) + DigitsValue(fp)
    IN  IF AllDigits(ip) /\ AllDigits(fp) /\ Len(ip) + Len(fp) > 0
        THEN Float(IF signed /\ s[1] = "-" THEN -n ELSE n, Pow10(Len(fp)))
        ELSE None

Add(a, b) == Float(a.num * b.den + b.num * a.den, a.den * b.den)
Sub(a, b) == Float(a.num * b.den - b.num * a.den, a.den * b.den)
Mul(a, b) == Float(a.num * b.num, a.den * b.den)
Div(a, b) ==
    Float(IF b.num < 0 THEN -(a.num * b.den) ELSE a.num * b.den,
          a.den * Abs(b.num))

\* the decimal digits of the natural number n
RECURSIVE NatStr(_)
NatStr(n) ==
    IF n < 10 THEN <<Digits[n + 1]>>
    ELSE NatStr(n \div 10) \o <<Digits[(n % 10) + 1]>>

\* the first k digits of the expansion of r / d (r < d), without the
\* zeros that end it
RECURSIVE FracStr(_, _, _)
FracStr(r, d, k) ==
    IF r = 0 \/ k = 0 THEN <<>>
    ELSE <<Digits[((10 * r) \div d) + 1]>> \o FracStr((10 * r) % d, d, k - 1)

\* str(x) of a float x: a sign if negative, the integer part, a point and at
\* least one fractional digit ("7.0", "-2.0", "0.5").  The exponent form of
\* very large and very small floats is outside the inputs of the model.
FloatStr(x) ==
    LET a == Abs(x.num)
        frac == FracStr(a % x.den, x.den, ReprDigits)
    IN  (IF x.num < 0 THEN <<"-">> ELSE <<>>)
        \o NatStr(a \div x.den) \o <<".">>
        \o (IF frac = <<>> THEN <<"0">> ELSE frac)

Decimal(coef, scale) == [kind |-> "Decimal", coef |-> coef, scale |-> scale]

\* Decimal(s) of a string matched by -?\d+(?:\.\d+)?
DecimalOf(s) ==
    LET neg == s # <<>> /\ s[1] = "-"
        body == IF neg THEN Tail(s) ELSE s
        dot == Find(body, ".", 0)
        ip == IF dot = -1 THEN body ELSE Slice(body, 0, dot)
        fp == IF dot = -1 THEN <<>> ELSE Slice(body, dot + 1, Len(body))
        n == DigitsValue(ip) * Pow10(Len(fp)) + DigitsValue(fp)
    IN  Decimal(IF neg THEN -n ELSE n, Len(fp))

\* Decimal(str(x)).quantize(Decimal("0.01")): x to two fractional digits,
\* a tie going to the even neighbour (ROUND_HALF_EVEN, the default context)
Quantize(x) ==
    LET a == Abs(x.num) * 100
        q == a \div x.den
        r == a % x.den
        up == 2 * r > x.den \/ (2 * r = x.den /\ q % 2 = 1)
        c == IF up THEN q + 1 ELSE q
    IN  Decimal(IF x.num < 0 THEN -c ELSE c, 2)

\* d < 0 of a Decimal
NeverNegative(d) == FALSE
IsNegative(d) == d.coef < 0

\* ------------------------------------------------------------------------
\* PriceParser._safe_eval
\* ------------------------------------------------------------------------
\* left op right of the float operands; None is the `return None` of a
\* division by zero
DivideByZeroIsZero(op, l, r) ==
    CASE op = "+" -> Add(l, r)
      [] op = "-" -> Sub(l, r)
      [] op = "*" -> Mul(l, r)
      [] op = "/" -> IF r.num = 0 THEN Float(0, 1) ELSE Div(l, r)
Apply(op, l, r) ==
    CASE op = "+" -> Add(l, r)
      [] op = "-" -> Sub(l, r)
      [] op = "*" -> Mul(l, r)
      [] op = "/" -> IF r.num = 0 THEN None ELSE Div(l, r)

RECURSIVE safe_eval(_)
\* the split at `pos`: both sides are evaluated, None on either side is
\* returned as None
SplitAt(expression, op, pos) ==
    LET left_val == safe_eval(Slice(expression, 0, pos))
        right_val == safe_eval(Slice(expression, pos + 1, Len(expression)))
    IN  IF left_val = None \/ right_val = None THEN None
        ELSE Apply(op, left_val, right_val)

\* steps 2 to 4: the expression has no parenthesis left
EvalFlat(expression) ==
    IF RFind(expression, "+") > 0 THEN SplitAt(expression, "+", RFind(expression, "+"))
    ELSE IF RFind(expression, "-") > 0 THEN SplitAt(expression, "-", RFind(expression, "-"))
    ELSE IF RFind(expression, "*") > 0 THEN SplitAt(expression, "*", RFind(expression, "*"))
    ELSE IF RFind(expression, "/") > 0 THEN SplitAt(expression, "/", RFind(expression, "/"))
    ELSE ParseFloat(expression)

safe_eval(expr) ==
    LET expression == Remove(expr, " ")
        start == RFind(expression, "(")
        end == Find(expression, ")", start)
        sub_result == safe_eval(Slice(expression, start + 1, end))
    IN  IF expression = <<>> THEN None
        ELSE IF Contains(expression, "(")
        THEN IF end = -1 THEN None
             ELSE IF sub_result = None THEN None
             ELSE safe_eval(Slice(expression, 0, start) \o FloatStr(sub_result)
                            \o Slice(expression, end + 1, Len(expression)))
        ELSE EvalFlat(expression)

\* ------------------------------------------------------------------------
\* PriceParser._evaluate_expression
\* ------------------------------------------------------------------------
\* the character class [\d+\-*/.()]
ExprChar(c) == IsDigit(c) \/ c \in {"+", "-", "*", "/", ".", "(", ")"}

evaluate_expression(expr) ==
    LET expression == Remove(expr, " ")
        result == safe_eval(expression)
    IN  IF expression = <<>> \/ \E i \in 1..Len(expression) : ~ExprChar(expression[i])
        THEN None
        ELSE IF result # None THEN Quantize(result) ELSE None

\* ------------------------------------------------------------------------
\* PriceParser.parse
\* ------------------------------------------------------------------------
KeywordsLastFirst ==
    <<<<"jin", "e">>, <<"zong", "ji">>, <<"zong", "jia">>, <<"he", "ji">>,
      <<"zong">>>>
PRICE_KEYWORDS ==
    <<<<"zong">>, <<"he", "ji">>, <<"zong", "jia">>, <<"zong", "ji">>,
      <<"jin", "e">>>>

\* the two error strings of parse()
ErrEmptyText == "text is empty"
ErrNotFound == "no price found"

PriceParseResult(success, amount, expression, error) ==
    [kind |-> "PriceParseResult", success |-> success, amount |-> amount,
     expression |-> expression, error |-> error]

\* the `continue` of the keyword loop
Continue == [kind |-> "continue"]

\* The matches below are re.search(pattern, text): of the positions where a
\* match exists the leftmost, and there the match the backtracking order of
\* the pattern finds first.  Positions count from 1; Len(text) + 1 is the
\* end of the text.

\* the keyword stands at position i
KeywordAt(text, keyword, i) ==
    /\ i + Len(keyword) - 1 <= Len(text)
    /\ SubSeq(text, i, i + Len(keyword) - 1) = keyword

\* where \s* stops when it takes all it can from position i
SkipSpaces(text, i) ==
    CHOOSE j \in i..Len(text) + 1 :
        /\ j = Len(text) + 1 \/ ~IsSpace(text[j])
        /\ \A m \in i..j - 1 : IsSpace(text[m])

\* where \d* stops from position i
SkipDigits(text, i) ==
    CHOOSE j \in i..Len(text) + 1 :
        /\ j = Len(text) + 1 \/ ~IsDigit(text[j])
        /\ \A m \in i..j - 1 : IsDigit(text[m])

\* \d+(?:\.\d+)? at position i: the position after the match, i if none
IntegerPartOnly(text, i) == SkipDigits(text, i)
NumberEnd(text, i) ==
    LET e == SkipDigits(text, i)
    IN  IF e > i /\ e <= Len(text) /\ text[e] = "." /\ SkipDigits(text, e + 1) > e + 1
        THEN SkipDigits(text, e + 1)
        ELSE e

\* the least element of a non-empty set of positions
Least(S) == CHOOSE i \in S : \A j \in S : i <= j

NoMatch == [matched |-> FALSE]

\* pattern 1 at the keyword at position i:
\*     keyword\s*([^=\n]+?)\s*=\s*(-?\d+(?:\.\d+)?)
\* Nothing before the "=" of the pattern can match "=", so it is the first
\* "=" after the keyword.  The text between the two is \s*, the group, \s*:
\* the group is that text without the white space around it and must hold
\* no newline; if the text is white space only, the group is one of its
\* characters other than the newline.  group(1).strip() is the same string
\* in both cases.
Pattern1At(text, keyword, i) ==
    LET a == i + Len(keyword)
        eqs == {j \in a..Len(text) : text[j] = "="}
        eq == Least(eqs)
        between == SubSeq(text, a, eq - 1)
        group == Strip(between)
        n0 == SkipSpaces(text, eq + 1)
        d0 == IF n0 <= Len(text) /\ text[n0] = "-" THEN n0 + 1 ELSE n0
        ne == NumberEnd(text, d0)
    IN  IF /\ KeywordAt(text, keyword, i)
           /\ eqs # {}
           /\ IF group # <<>> THEN ~Contains(group, "\n")
                              ELSE Contains(between, " ")
           /\ ne > d0
        THEN [matched |-> TRUE, expression |-> group,
              stated_result |-> SubSeq(text, n0, ne - 1)]
        ELSE NoMatch

\* after position r - 1 the text matches \s*$ or \s*\n (re.MULTILINE: $ is
\* the end of the text or the place before a newline)
LineEndsAt(text, r) ==
    LET m == SkipSpaces(text, r)
    IN  m = Len(text) + 1 \/ \E n \in r..m - 1 : text[n] = "\n"

\* pattern 2 at the keyword at position i:
\*     keyword\s*([^=\n]+?)(?:\s*$|\s*\n)
\* \s* first takes all the white space after the keyword and the group then
\* grows from the next character to the first place where the line ends.
\* If that fails, \s* gives characters back and the group is one space
\* followed by the end of the line; group(1).strip() is then empty.
Pattern2At(text, keyword, i) ==
    LET a == i + Len(keyword)
        p == SkipSpaces(text, a)
        ends == {q \in p..Len(text) :
                    /\ LineEndsAt(text, q + 1)
                    /\ \A m \in p..q : text[m] \notin {"=", "\n"}}
        space == \E s \in a..p - 1 :
                    /\ text[s] # "\n"
                    /\ p = Len(text) + 1 \/ \E n \in s + 1..p - 1 : text[n] = "\n"
    IN  IF KeywordAt(text, keyword, i) /\ ends # {}
        THEN [matched |-> TRUE, expression |-> Strip(SubSeq(text, p, Least(ends)))]
        ELSE IF KeywordAt(text, keyword, i) /\ space
        THEN [matched |-> TRUE, expression |-> <<>>]
        ELSE NoMatch

\* pattern 3 at the keyword at position i:  keyword\s*(\d+(?:\.\d+)?)
\* match_end is match.end(), a Python index
Pattern3At(text, keyword, i) ==
    LET p == SkipSpaces(text, i + Len(keyword))
        ne == NumberEnd(text, p)
    IN  IF KeywordAt(text, keyword, i) /\ ne > p
        THEN [matched |-> TRUE, number |-> SubSeq(text, p, ne - 1),
              match_end |-> ne - 1]
        ELSE NoMatch

\* re.search: the match at the leftmost position that has one
Search1(text, keyword) ==
    LET starts == {i \in 1..Len(text) : Pattern1At(text, keyword, i).matched}
    IN  IF starts = {} THEN NoMatch ELSE Pattern1At(text, keyword, Least(starts))

Search2(text, keyword) ==
    LET starts == {i \in 1..Len(text) : Pattern2At(text, keyword, i).matched}
    IN  IF starts = {} THEN NoMatch ELSE Pattern2At(text, keyword, Least(starts))

Search3(text, keyword) ==
    LET starts == {i \in 1..Len(text) : Pattern3At(text, keyword, i).matched}
    IN  IF starts = {} THEN NoMatch ELSE Pattern3At(text, keyword, Least(starts))

\* any(op in expression for op in ["+", "-", "*", "/"])
HasOperator(expression) == \E op \in {"+", "-", "*", "/"} : Contains(expression, op)

\* the look-ahead of pattern 3: the first of the three characters after the
\* number, white space apart, is an operator
FollowedByOperator(text, match_end) ==
    LET next_chars == Strip(Slice(text, match_end,
                                  IF match_end + 3 < Len(text) THEN match_end + 3
                                                               ELSE Len(text)))
    IN  /\ match_end < Len(text)
        /\ next_chars # <<>>
        /\ next_chars[1] \in {"+", "-", "*", "/", "x", "times"}

\* pattern 3 of the loop body
Try3(text, keyword) ==
    LET match == Search3(text, keyword)
    IN  IF ~match.matched THEN Continue
        ELSE IF FollowedByOperator(text, match.match_end) THEN Continue
        ELSE PriceParseResult(TRUE, DecimalOf(match.number), None, None)

\* pattern 2 of the loop body, and what follows it
Try2WithoutFallThrough(text, keyword) ==
    LET match == Search2(text, keyword)
        calculated_result == evaluate_expression(match.expression)
    IN  IF match.matched /\ HasOperator(match.expression)
        THEN IF calculated_result = None \/ IsNegative(calculated_result)
             THEN Continue
             ELSE PriceParseResult(TRUE, calculated_result,
                                   Str(match.expression), None)
        ELSE Try3(text, keyword)
Try2(text, keyword) ==
    LET match == Search2(text, keyword)
        calculated_result == evaluate_expression(match.expression)
    IN  IF /\ match.matched
           /\ HasOperator(match.expression)
           /\ calculated_result # None
        THEN IF IsNegative(calculated_result) THEN Continue
             ELSE PriceParseResult(TRUE, calculated_result,
                                   Str(match.expression), None)
        ELSE Try3(text, keyword)

\* the body of the keyword loop: a result if it returns, Continue if it goes
\* on to the next keyword.  Pattern 1 also computes
\* self._evaluate_expression(expression) and does not use the value.
TryKeywordValidating(text, keyword) ==
    LET match == Search1(text, keyword)
        stated_decimal == DecimalOf(match.stated_result)
    IN  IF match.matched /\ evaluate_expression(match.expression) = Quantize(
               Float(stated_decimal.coef, Pow10(stated_decimal.scale)))
        THEN IF IsNegative(stated_decimal) THEN Continue
             ELSE PriceParseResult(TRUE, stated_decimal,
                                   Str(match.expression), None)
        ELSE Try2(text, keyword)
TryKeyword(text, keyword) ==
    LET match == Search1(text, keyword)
        stated_decimal == DecimalOf(match.stated_result)
    IN  IF match.matched
        THEN IF IsNegative(stated_decimal) THEN Continue
             ELSE PriceParseResult(TRUE, stated_decimal,
                                   Str(match.expression), None)
        ELSE Try2(text, keyword)

RECURSIVE TryKeywords(_, _)
TryKeywords(text, k) ==
    IF k > Len(PRICE_KEYWORDS)
    THEN PriceParseResult(FALSE, None, None, Str(ErrNotFound))
    ELSE LET out == TryKeyword(text, PRICE_KEYWORDS[k])
         IN  IF out = Continue THEN TryKeywords(text, k + 1) ELSE out

\* text.replace("\u00d7", "*").replace("x", "*")
Normalised(text) == Replace(Replace(text, "times", "*"), "x", "*")

parse(text) ==
    IF text = <<>>
    THEN PriceParseResult(FALSE, None, None, Str(ErrEmptyText))
    ELSE TryKeywords(Normalised(text), 1)

\* ------------------------------------------------------------------------
\* clean_message_text (app/bot/handler.py)
\* ------------------------------------------------------------------------
\* the ideographs U+4E00 to U+9FFF
IsCJK(c) == c \in {"zong", "he", "ji", "jia", "jin", "e", "yuan"}

\* the characters the pattern [^...] leaves in place
AllowedChar(c) ==
    \/ IsCJK(c)
    \/ IsDigit(c)
    \/ c \in {"+", "-", "*", "/", "=", "(", ")", "times"}
    \/ IsSpace(c)
    \/ c \in {",", ".", ";", ":", "!", "?", "fullwidth comma",
              "ideographic full stop", "fullwidth semicolon",
              "fullwidth colon", "ideographic comma",
              "fullwidth exclamation mark"}

\* re.sub(r"\s+", " ", text)
RECURSIVE CollapseSpaces(_)
CollapseSpaces(s) ==
    IF s = <<>> THEN <<>>
    ELSE IF IsSpace(s[1])
    THEN <<" ">> \o CollapseSpaces(SubSeq(s, SkipSpaces(s, 1), Len(s)))
    ELSE <<s[1]>> \o CollapseSpaces(Tail(s))

StripBeforeRemoving(text) ==
    CollapseSpaces(Replace(SelectSeq(Strip(text), AllowedChar), "times", "*"))
clean_message_text(text) ==
    IF text = <<>> THEN text
    ELSE Strip(CollapseSpaces(Replace(SelectSeq(text, AllowedChar), "times", "*")))

\* ------------------------------------------------------------------------
\* The inputs of the calls
\* ------------------------------------------------------------------------
\* parse(): the keyword "zong" and a body of any characters
BodyChars == {"0", "5", ".", "+", "-", "/", "=", " ", "\n", "x"}

GenericTexts == {<<"zong">> \o b : b \in BoundedSeq(BodyChars, MaxBody)}

\* parse(): the keyword and an amount, an integer or with two decimals
AmountDigits == {"0", "5"}

IntParts == BoundedSeq(AmountDigits, MaxIntDigits) \ {<<>>}

Amounts ==
    IntParts \cup {ip \o <<".">> \o fp : ip \in IntParts, fp \in [1..2 -> AmountDigits]}

BareTexts == {<<"zong">> \o a : a \in Amounts}

\* parse(): the keyword, a minus sign and a numeral
Numerals ==
    IntParts \cup {ip \o <<".">> \o fp :
                       ip \in IntParts,
                       fp \in BoundedSeq(AmountDigits, MaxFracDigits) \ {<<>>}}

NegativeTexts == {<<"zong", "-">> \o n : n \in Numerals}

\* parse(): the keyword and a quotient, alone or in a longer expression
QuotientTexts ==
    {<<"zong">> \o a \o <<"/">> \o b \o c :
        a \in Numerals, b \in {<<"0">>, <<"5">>},
        c \in {<<>>, <<"+", "5">>, <<"/", "5">>}}

\* parse(): a keyword, an expression, "=" and a number, with or without
\* spaces between them
StatedExprs ==
    {<<"5">>, <<"5", "x", "5">>, <<"5", "+", "5">>, <<"yuan">>, <<"5", "/", "0">>}

StatedNumbers == {<<"5">>, <<"0">>, <<"-", "5">>, <<"5", ".", "5">>, <<"1", "0">>}

Pads == {<<>>, <<" ">>}

StatedTexts ==
    {k \o p1 \o ex \o p2 \o <<"=">> \o p3 \o n :
        k \in {PRICE_KEYWORDS[1], PRICE_KEYWORDS[2], PRICE_KEYWORDS[3]},
        p1 \in Pads, ex \in StatedExprs, p2 \in Pads, p3 \in Pads,
        n \in StatedNumbers}

\* parse(): the keyword "zong" twice, each time with a stated result
RepeatTexts ==
    {<<"zong">> \o p \o <<"5", "=">> \o n1 \o <<" ", "zong", "5", "=">> \o n2 :
        p \in {<<>>, <<"\n">>}, n1 \in StatedNumbers, n2 \in StatedNumbers}

\* parse(): two keywords, each with a candidate of its own
Candidates == {<<"5">>, <<"7">>, <<"-", "5">>}

PairTexts ==
    {PRICE_KEYWORDS[k1] \o c1 \o sep \o PRICE_KEYWORDS[k2] \o c2 :
        k1 \in 1..Len(PRICE_KEYWORDS), k2 \in 1..Len(PRICE_KEYWORDS),
        c1 \in Candidates, c2 \in Candidates, sep \in {<<" ">>, <<"\n">>}}

\* parse(): no keyword at all, the empty text among them
PlainTexts == BoundedSeq(BodyChars, 1)

ParseTexts ==
    GenericTexts \cup BareTexts \cup NegativeTexts \cup QuotientTexts
    \cup StatedTexts \cup RepeatTexts \cup PairTexts \cup PlainTexts

\* _safe_eval(): a literal, or literals joined by operators, with or without
\* a leading minus
Literals == {<<"0">>, <<"2">>, <<"3">>, <<"0", ".", "5">>}

Operators == {"+", "-", "*", "/"}

Chains ==
    UNION {{Flatten([i \in 1..m |-> <<c[i][1]>> \o c[i][2]]) :
               c \in [1..m -> Operators \X Literals]} : m \in 0..MaxOps}

Arithmetic == {s \o l \o c : s \in {<<>>, <<"-">>}, l \in Literals, c \in Chains}

\* _safe_eval(): any short string of the characters of an expression
ExprChars == {"0", "2", ".", "+", "-", "*", "/", "(", ")", " "}

\* str() of the float x has at most ReprDigits fractional digits
ExactRepr(x) == Pow10(ReprDigits) % x.den = 0

\* a quotient by the literal l has such a str(): l is zero (no quotient) or
\* its reciprocal has
DividesExactly(op, l) ==
    LET d == ParseFloat(l)
    IN  op = "/" => (d.num = 0 \/ ExactRepr(Float(d.den, d.num)))

\* _safe_eval(): one parenthesised group of two literals, alone, after a
\* literal and an operator, or before an operator and a literal; the value
\* of the group is one that str() writes with few digits
Groups ==
    {<<"(">> \o t[1] \o <<t[2]>> \o t[3] \o <<")">> :
        t \in {u \in Literals \X Operators \X Literals :
                  DividesExactly(u[2], u[3])}}

Grouped ==
    Groups
    \cup {l \o <<op>> \o g : l \in Literals, op \in Operators, g \in Groups}
    \cup {g \o <<op>> \o l : l \in Literals, op \in Operators, g \in Groups}

EvalInputs == Arithmetic \cup Grouped \cup BoundedSeq(ExprChars, MaxExprLen)

\* clean_message_text(): an ideograph, a digit, the multiplication glyph,
\* white space, and two characters outside the allow-list
CleanChars == {"zong", "5", "times", " ", "\n", "a", "smile"}

CleanInputs == BoundedSeq(CleanChars, MaxCleanLen)

\* ------------------------------------------------------------------------
\* The calls
\* ------------------------------------------------------------------------
TextInit ==
    /\ p_text = <<>>
    /\ p_result = NoResult
    /\ p_after_fail = FALSE
    /\ e_expr = <<>>
    /\ e_value = NotCalled
    /\ c_text = <<>>
    /\ c_out = NotCalled

\* the text is the keyword "zong", a numeral, "/" and a zero
DivisionByZeroText(text) ==
    \E a \in Numerals : text = <<"zong">> \o a \o <<"/", "0">>

\* result = price_parser.parse(text)
Parse(text) ==
    /\ UNCHANGED notParse
    /\ p_result = NoResult
    /\ p_text' = text
    /\ p_result' = parse(text)
    /\ UNCHANGED p_after_fail

\* the caller has used the result and drops it; the parser object keeps
\* nothing of the call
Discard ==
    /\ UNCHANGED notParse
    /\ p_result # NoResult
    /\ p_text' = <<>>
    /\ p_result' = NoResult
    /\ p_after_fail' = (p_after_fail \/ DivisionByZeroText(p_text))

ParseNext ==
    \/ \E text \in IF p_result = NoResult THEN ParseTexts ELSE {} : Parse(text)
    \/ Discard

\* self._safe_eval(expression)
SafeEval(expression) ==
    /\ UNCHANGED notEval
    /\ e_value = NotCalled
    /\ e_expr' = expression
    /\ e_value' = safe_eval(expression)

EvalNext ==
    \E expression \in IF e_value = NotCalled THEN EvalInputs ELSE {} :
        SafeEval(expression)

\* text = clean_message_text(update.message.text)
Clean(text) ==
    /\ UNCHANGED notClean
    /\ c_out = NotCalled
    /\ c_text' = text
    /\ c_out' = Str(clean_message_text(text))

CleanNext ==
    \E text \in IF c_out = NotCalled THEN CleanInputs ELSE {} : Clean(text)

\* ========================================================================
\* Properties of PriceParser.parse, _safe_eval and clean_message_text
\* ========================================================================
\* a parse() call has returned
Returned == p_result # NoResult

\* the amount of a result, in hundredths (for a scale of at most 2)
InCents(amount) == amount.coef * Pow10(2 - amount.scale)

CentsOf(a) ==
    IF Contains(a, ".")
    THEN DigitsValue(SubSeq(a, 1, Len(a) - 3)) * 100
         + DigitsValue(SubSeq(a, Len(a) - 1, Len(a)))
    ELSE DigitsValue(a) * 100

\* C12: parse of the keyword "zong" and the digits of a non-negative amount
\* A, an integer or with two decimals, succeeds with an amount numerically
\* equal to A and no expression.
C12_BareAmount ==
    (Returned /\ p_text \in BareTexts) =>
        /\ p_result.success
        /\ p_result.amount # None
        /\ p_result.amount.scale <= 2
        /\ InCents(p_result.amount) = CentsOf(Tail(p_text))
        /\ p_result.expression = None

\* parse of the keyword and an amount with two decimals has returned
C12_Witness ==
    /\ Returned
    /\ p_text \in BareTexts
    /\ Contains(p_text, ".")
    /\ p_result.success
    /\ p_result.amount.coef > 0

\* the value of a division by zero in arithmetic
Undefined == [kind |-> "undefined"]

Greatest(S) == CHOOSE i \in S : \A j \in S : j <= i

\* The value of a parenthesis-free expression in standard arithmetic, by the
\* grammar  sum ::= sum (+|-) term | term,  term ::= term (*|/) literal |
\* literal:  an expression with a binary + or - is its part before the last
\* of them, plus or minus the term after it; a term with a * or / is its
\* part before the last of them, times or divided by the literal after it.
\* A sign at the start belongs to the first literal.
RECURSIVE StandardValue(_)
StandardValue(e) ==
    LET adds == {i \in 2..Len(e) : e[i] \in {"+", "-"}}
        muls == {i \in 2..Len(e) : e[i] \in {"*", "/"}}
        i == Greatest(IF adds # {} THEN adds ELSE muls)
        l == StandardValue(SubSeq(e, 1, i - 1))
        r == StandardValue(SubSeq(e, i + 1, Len(e)))
    IN  IF adds = {} /\ muls = {} THEN ParseFloat(e)
        ELSE IF l = Undefined \/ r = Undefined THEN Undefined
        ELSE CASE e[i] = "+" -> Add(l, r)
               [] e[i] = "-" -> Sub(l, r)
               [] e[i] = "*" -> Mul(l, r)
               [] e[i] = "/" -> IF r.num = 0 THEN Undefined ELSE Div(l, r)

\* C13: for a parenthesis-free expression over non-negative literals and
\* + - * /, with or without a leading minus, _safe_eval returns the value of
\* standard arithmetic: * and / bind tighter than + and -, and operators of
\* equal precedence associate from left to right.
C13_StandardArithmetic ==
    (e_value # NotCalled /\ e_expr \in Arithmetic
        /\ StandardValue(e_expr) # Undefined)
    => e_value = StandardValue(e_expr)

\* 3-2*0.5 has returned 2 (not 0.5) or 3-2-2 has returned -1 (not 3)
C13_Witness ==
    \/ /\ e_expr = <<"3", "-", "2", "*", "0", ".", "5">>
       /\ e_value = Float(2, 1)
    \/ /\ e_expr = <<"3", "-", "2", "-", "2">>
       /\ e_value = Float(-1, 1)

\* the number that stands after position j of the text, which is the
\* position of "=", white space skipped; <<>> if there is none
StatedNumber(text, j) ==
    LET n0 == SkipSpaces(text, j + 1)
        d0 == IF n0 <= Len(text) /\ text[n0] = "-" THEN n0 + 1 ELSE n0
    IN  IF NumberEnd(text, d0) > d0 THEN SubSeq(text, n0, NumberEnd(text, d0) - 1)
        ELSE <<>>

\* at position i stands the keyword, then some text without "=" or newline,
\* then "=" at position j, then a number
StatedAt(text, keyword, i, j) ==
    /\ KeywordAt(text, keyword, i)
    /\ j \in i + Len(keyword) + 1..Len(text)
    /\ text[j] = "="
    /\ \A m \in i + Len(keyword)..j - 1 : text[m] \notin {"=", "\n"}
    /\ StatedNumber(text, j) # <<>>

\* no keyword before the k-th of PRICE_KEYWORDS produces a result
NoEarlierKeywordWins(text, k) ==
    \A k2 \in 1..k - 1 : TryKeyword(Normalised(text), PRICE_KEYWORDS[k2]) = Continue

NumericallyEqual(a, b) == a.coef * Pow10(b.scale) = b.coef * Pow10(a.scale)

\* C14 as stated: wherever a keyword is followed by text without "=" or
\* newline, "=" and a non-negative number N, and no earlier keyword wins,
\* parse succeeds with amount N and with that text as the expression.
C14_AsStated ==
    \A k \in 1..Len(PRICE_KEYWORDS), i \in 1..Len(p_text), j \in 1..Len(p_text) :
        (/\ Returned
         /\ StatedAt(p_text, PRICE_KEYWORDS[k], i, j)
         /\ StatedNumber(p_text, j)[1] # "-"
         /\ IsDigit(p_text[j + 1])
         /\ NoEarlierKeywordWins(p_text, k))
        => /\ p_result.success
           /\ NumericallyEqual(p_result.amount, DecimalOf(StatedNumber(p_text, j)))
           /\ p_result.expression = Str(SubSeq(p_text, i + Len(PRICE_KEYWORDS[k]), j - 1))

\* C14, amended: when the first occurrence of a keyword in the text is
\* followed by text without "=" or newline, "=" and a non-negative number N
\* (white space may stand before N), and no earlier keyword wins, parse
\* succeeds with amount N; the expression is the text between the keyword
\* and "=" with "x" and the multiplication glyph written as "*" and without
\* the white space around it, whether or not it evaluates to N or at all.
C14_StatedResultTrusted ==
    \A k \in 1..Len(PRICE_KEYWORDS), i \in 1..Len(p_text), j \in 1..Len(p_text) :
        (/\ Returned
         /\ StatedAt(p_text, PRICE_KEYWORDS[k], i, j)
         /\ \A i2 \in 1..i - 1 : ~KeywordAt(p_text, PRICE_KEYWORDS[k], i2)
         /\ StatedNumber(p_text, j)[1] # "-"
         /\ NoEarlierKeywordWins(p_text, k))
        => /\ p_result.success
           /\ NumericallyEqual(p_result.amount, DecimalOf(StatedNumber(p_text, j)))
           /\ p_result.expression =
                  Str(Strip(SubSeq(Normalised(p_text),
                                   i + Len(PRICE_KEYWORDS[k]), j - 1)))

\* a stated result was taken although the expression before it, which has
\* an "x" and a space, evaluates to another number
C14_Witness ==
    /\ p_text = <<"zong", " ", "5", "x", "5", "=", "1", "0">>
    /\ Returned
    /\ p_result.success
    /\ p_result.amount = Decimal(10, 0)
    /\ p_result.expression = Str(<<"5", "*", "5">>)

\* pattern 1 matches for the keyword and its stated number is negative
StatedNegative(text, keyword) ==
    /\ Search1(text, keyword).matched
    /\ IsNegative(DecimalOf(Search1(text, keyword).stated_result))

\* pattern 2 is reached and matches an expression with an operator
ExpressionMatched(text, keyword) ==
    /\ ~Search1(text, keyword).matched
    /\ Search2(text, keyword).matched
    /\ HasOperator(Search2(text, keyword).expression)

\* the expression pattern 2 matched evaluates to a negative value
EvaluatesNegative(text, keyword) ==
    /\ ExpressionMatched(text, keyword)
    /\ evaluate_expression(Search2(text, keyword).expression) # None
    /\ evaluate_expression(Search2(text, keyword).expression).coef < 0

\* the expression pattern 2 matched fails to evaluate
FailsToEvaluate(text, keyword) ==
    /\ ExpressionMatched(text, keyword)
    /\ evaluate_expression(Search2(text, keyword).expression) = None

\* pattern 3 of the keyword, taken alone, yields an amount
BareNumberValid(text, keyword) ==
    /\ Search3(text, keyword).matched
    /\ ~FollowedByOperator(text, Search3(text, keyword).match_end)

\* the result is the one pattern 3 of the keyword gives
BareNumberReturned(text, keyword) ==
    /\ p_result.success
    /\ p_result.amount = DecimalOf(Search3(text, keyword).number)
    /\ p_result.expression = None

\* C15 as stated: when the candidate of pattern 1 or 2 of a keyword is
\* rejected (stated number negative, expression negative, expression not
\* evaluable), pattern 3 is still attempted for that keyword, so a text for
\* which pattern 3 of that keyword yields an amount succeeds with it.
C15_AsStated ==
    \A k \in 1..Len(PRICE_KEYWORDS) :
        (/\ Returned
         /\ NoEarlierKeywordWins(p_text, k)
         /\ \/ StatedNegative(Normalised(p_text), PRICE_KEYWORDS[k])
            \/ EvaluatesNegative(Normalised(p_text), PRICE_KEYWORDS[k])
            \/ FailsToEvaluate(Normalised(p_text), PRICE_KEYWORDS[k])
         /\ BareNumberValid(Normalised(p_text), PRICE_KEYWORDS[k]))
        => BareNumberReturned(Normalised(p_text), PRICE_KEYWORDS[k])

\* C15, amended: when the expression of pattern 2 fails to evaluate, pattern
\* 3 is still attempted for the same keyword and a text for which it yields
\* an amount succeeds with it; when the stated number of pattern 1 or the
\* value of pattern 2 is negative, the keyword is abandoned without pattern
\* 3 and the result is that of the keywords after it.
C15_FallThroughOnFailureOnly ==
    \A k \in 1..Len(PRICE_KEYWORDS) :
        /\ (/\ Returned
            /\ NoEarlierKeywordWins(p_text, k)
            /\ FailsToEvaluate(Normalised(p_text), PRICE_KEYWORDS[k])
            /\ BareNumberValid(Normalised(p_text), PRICE_KEYWORDS[k]))
           => BareNumberReturned(Normalised(p_text), PRICE_KEYWORDS[k])
        /\ (/\ Returned
            /\ NoEarlierKeywordWins(p_text, k)
            /\ \/ StatedNegative(Normalised(p_text), PRICE_KEYWORDS[k])
               \/ EvaluatesNegative(Normalised(p_text), PRICE_KEYWORDS[k]))
           => p_result = TryKeywords(Normalised(p_text), k + 1)

\* the text zong5.+ : pattern 2 matched "5.+", which does not evaluate, and
\* pattern 3 gave the amount 5
C15_Witness ==
    /\ Returned
    /\ p_text = <<"zong", "5", ".", "+">>
    /\ FailsToEvaluate(p_text, PRICE_KEYWORDS[1])
    /\ p_result.success
    /\ p_result.amount = Decimal(5, 0)

\* C16 as stated: every result with success = true has an amount with
\* exactly two fractional digits, whichever pattern produced it.
C16_AsStated == (Returned /\ p_result.success) => p_result.amount.scale = 2

\* the number a numeral denotes is positive
PositiveNumeral(n) == \E i \in 1..Len(n) : IsDigit(n[i]) /\ n[i] # "0"

\* C17 as stated: for every positive number N, parse of the keyword "zong",
\* "-" and the digits of N returns success = false.
C17_AsStated ==
    \A n \in Numerals :
        (Returned /\ PositiveNumeral(n) /\ p_text = <<"zong", "-">> \o n)
        => ~p_result.success

\* s is a literal without sign: digits with at most one point
IsLiteral(s) ==
    /\ Remove(s, ".") # <<>>
    /\ AllDigits(Remove(s, "."))
    /\ Len(s) - Len(Remove(s, ".")) <= 1

\* e is a parenthesis-free arithmetic expression: literals without sign,
\* joined by operators, with or without a minus at the start
IsArithmetic(e) ==
    LET u == IF e # <<>> /\ e[1] = "-" THEN Tail(e) ELSE e
        cuts == {0, Len(u) + 1} \cup {i \in 1..Len(u) : u[i] \in Operators}
    IN  \A a \in cuts \ {Len(u) + 1} :
            IsLiteral(SubSeq(u, a + 1, Least({b \in cuts : b > a}) - 1))

ValidCandidate(c) == c[1] # "-"

\* no keyword of PRICE_KEYWORDS occurs in the text
KeywordAbsent(text) ==
    \A k \in 1..Len(PRICE_KEYWORDS), i \in 1..Len(text) :
        ~KeywordAt(text, PRICE_KEYWORDS[k], i)

\* the result for a text with a candidate for each of two keywords, given in
\* the order of PRICE_KEYWORDS: the first candidate that is an amount, and a
\* failure if neither is
ResultByPriority(first, second) ==
    IF ValidCandidate(first)
    THEN p_result.success /\ p_result.amount = DecimalOf(first)
    ELSE IF ValidCandidate(second)
    THEN p_result.success /\ p_result.amount = DecimalOf(second)
    ELSE ~p_result.success

\* the order of the keywords the claim gives
ClaimedOrder ==
    <<<<"zong">>, <<"he", "ji">>, <<"zong", "jia">>, <<"zong", "ji">>,
      <<"jin", "e">>>>

\* for a text of two different keywords with a candidate each, the result
\* is that of the keyword earlier in the order whose candidate is an
\* amount, wherever it stands in the text
PriorityDecides ==
    \A k1 \in 1..Len(ClaimedOrder), k2 \in 1..Len(ClaimedOrder),
       c1 \in Candidates, c2 \in Candidates, sep \in {<<" ">>, <<"\n">>} :
        (/\ Returned
         /\ k1 # k2
         /\ p_text = ClaimedOrder[k1] \o c1 \o sep \o ClaimedOrder[k2] \o c2)
        => IF k1 < k2 THEN ResultByPriority(c1, c2) ELSE ResultByPriority(c2, c1)

\* C19 as stated: the keywords are tried in the order of PRICE_KEYWORDS and
\* the first that yields a valid candidate gives the result, wherever the
\* keywords stand; if none does, the result is a failure with the 'no price
\* found' error.
C19_AsStated ==
    /\ PriorityDecides
    /\ (Returned /\ KeywordAbsent(p_text)) => ~p_result.success
    /\ (Returned /\ ~p_result.success) => p_result.error = Str(ErrNotFound)

\* C19, amended: as stated, but the failure for the empty text carries
\* the 'text is empty' error.
C19_KeywordPriority ==
    /\ PriorityDecides
    /\ (Returned /\ KeywordAbsent(p_text)) => ~p_result.success
    /\ (Returned /\ ~p_result.success) =>
           p_result.error = Str(IF p_text = <<>> THEN ErrEmptyText ELSE ErrNotFound)

\* the text "jin e 5, newline, he ji 7": the later keyword of the text is
\* earlier in PRICE_KEYWORDS and has given the amount
C19_Witness ==
    /\ Returned
    /\ p_text = <<"jin", "e", "5", "\n", "he", "ji", "7">>
    /\ p_result.success
    /\ p_result.amount = Decimal(7, 0)

\* the number of times the character c occurs in s
Count(s, c) == Len(s) - Len(Remove(s, c))

\* what clean_message_text promises of its output o
Normal(o) ==
    /\ \A i \in 1..Len(o) : AllowedChar(o[i]) \/ o[i] = "*"
    /\ ~Contains(o, "times")
    /\ \A i \in 1..Len(o) - 1 : ~(IsSpace(o[i]) /\ IsSpace(o[i + 1]))
    /\ o # <<>> => ~IsSpace(o[1]) /\ ~IsSpace(o[Len(o)])

StandardApply(op, l, r) ==
    IF l = Undefined \/ r = Undefined THEN Undefined
    ELSE CASE op = "+" -> Add(l, r)
           [] op = "-" -> Sub(l, r)
           [] op = "*" -> Mul(l, r)
           [] op = "/" -> IF r.num = 0 THEN Undefined ELSE Div(l, r)

\* The value in standard arithmetic of an expression of Grouped: the group
\* is evaluated first and its value stands in its place.
GroupedValue(e) ==
    LET open == CHOOSE i \in 1..Len(e) : e[i] = "("
        close == CHOOSE i \in 1..Len(e) : e[i] = ")"
        group == StandardValue(SubSeq(e, open + 1, close - 1))
    IN  IF open > 1
        THEN StandardApply(e[open - 1], StandardValue(SubSeq(e, 1, open - 2)), group)
        ELSE IF close < Len(e)
        THEN StandardApply(e[close + 1], group,
                           StandardValue(SubSeq(e, close + 2, Len(e))))
        ELSE group

\* s has as many "(" as ")" and no prefix with more ")" than "("
Balanced(s) ==
    /\ Len(s) - Len(Remove(s, "(")) = Len(s) - Len(Remove(s, ")"))
    /\ \A i \in 1..Len(s) :
           Len(SubSeq(s, 1, i)) - Len(Remove(SubSeq(s, 1, i), ")"))
               <= Len(SubSeq(s, 1, i)) - Len(Remove(SubSeq(s, 1, i), "("))

\* C21 as stated: for an expression with one balanced group, _safe_eval
\* returns the value of standard arithmetic, wherever the group stands
\* (first, or after any of + - * /) and whatever the sign of its value, and
\* for unbalanced parentheses it returns None.
C21_AsStated ==
    e_value # NotCalled =>
        /\ (/\ e_expr \in Grouped
            /\ GroupedValue(e_expr) # Undefined)
           => e_value = GroupedValue(e_expr)
        /\ ~Balanced(e_expr) => e_value = None

\* every character of the expression, spaces apart, is of the class
\* [0-9 + - * / . ( )]
ExpressionInClass(expression) ==
    \A i \in 1..Len(expression) :
        expression[i] = " " \/ ExprChar(expression[i])

\* C22 as stated: whenever parse returns success = true with an expression,
\* the expression consists of characters of the class [0-9 + - * / . ( )]
\* and spaces only; a text of the keyword and a bare amount is returned
\* without expression.
C22_AsStated ==
    Returned =>
        /\ (p_result.success /\ p_result.expression # None)
               => ExpressionInClass(p_result.expression.chars)
        /\ p_text \in BareTexts => p_result.expression = None

\* ------------------------------------------------------------------------
\* DatabaseService: the ledger of a chat (groups, orders, transactions)
\*
\* Every message is handled on a session of its own (main.message_callback).
\* A session holds what it has loaded and what it has flushed; the database
\* holds what has been committed.  The database is SQLite (config.py,
\* DATABASE_URL): the first INSERT, UPDATE or DELETE of a session begins a
\* transaction and takes the one write lock of the database, which the
\* session keeps until it commits; a SELECT reads what is committed.  Every
\* database call is an await, so the handlers interleave call by call.
\* Amounts are in cents.
\* ------------------------------------------------------------------------
\* bounds: the messages handled, and the largest amount of one message
MaxMessages == 3
MaxAmount == 2

Messages == 1..MaxMessages

Chats == {7, 9}

\* a row of table groups, and the Group object a session loads from it
Group(total) == [kind |-> "Group", total_amount |-> total]

DBInit ==
    /\ groups = [c \in Chats |-> None]
    /\ orders = {}
    /\ transactions = {}
    /\ db_writer = NoTask
    /\ h_pc = [m \in Messages |-> "new"]
    /\ h_req = [m \in Messages |-> None]
    /\ h_group = [m \in Messages |-> None]

\* message_callback: a session is opened for the update, and handle_message
\* finds an order (PriceParser), an adjustment (+n, -n) or the clear command.
\* Updates are received in the order of their numbers.
message_callback(m) ==
    /\ h_pc[m] = "new"
    /\ IF m = 1 THEN TRUE ELSE h_pc[m - 1] # "new"
    /\ \E c \in Chats, type \in {"order", "add", "reduce", "clear"},
          amount \in 1..MaxAmount :
           /\ type = "clear" => amount = 1
           /\ h_req' = [h_req EXCEPT ![m] =
                           [chat |-> c, type |-> type, amount |-> amount]]
    /\ h_pc' = [h_pc EXCEPT ![m] = "start"]
    /\ UNCHANGED <<groups, orders, transactions, db_writer, h_group>>
    /\ UNCHANGED notDB

\* get_or_create_group as add_order and add_transaction call it, one
\* disjunct per database call.
get_or_create_group(m) ==
    \* db.execute(select(Group)): the SELECT flushes the session first
    \* (autoflush), which INSERTs the Order (add_order) or the Transaction
    \* (add_transaction) added just before and takes the write lock; then
    \* the group row is read.
    \/ /\ h_pc[m] = "start"
       /\ h_req[m].type # "clear"
       /\ db_writer = NoTask
       /\ db_writer' = m
       /\ h_group' = [h_group EXCEPT ![m] = groups[h_req[m].chat]]
       /\ h_pc' = [h_pc EXCEPT ![m] =
                      IF groups[h_req[m].chat] = None THEN "creating"
                      ELSE "loaded"]
       /\ UNCHANGED <<groups, orders, transactions, h_req>>
       /\ UNCHANGED notDB
    \* group is None: the Group is added with total 0 and db.commit()
    \* commits it together with the row flushed by the SELECT, and gives the
    \* write lock back.
    \/ /\ h_pc[m] = "creating"
       /\ groups' = [groups EXCEPT ![h_req[m].chat] = Group(0)]
       /\ orders' = IF h_req[m].type = "order" THEN orders \cup {m} ELSE orders
       /\ transactions' = IF h_req[m].type = "order" THEN transactions
                          ELSE transactions \cup {m}
       /\ db_writer' = NoTask
       /\ h_pc' = [h_pc EXCEPT ![m] = "refreshing"]
       /\ UNCHANGED <<h_req, h_group>>
       /\ UNCHANGED notDB
    \* db.refresh(group) reads the committed row
    \/ /\ h_pc[m] = "refreshing"
       /\ h_group' = [h_group EXCEPT ![m] = groups[h_req[m].chat]]
       /\ h_pc' = [h_pc EXCEPT ![m] = "loaded"]
       /\ UNCHANGED <<groups, orders, transactions, db_writer, h_req>>
       /\ UNCHANGED notDB

\* The rest of add_order and add_transaction: total_amount += amount on the
\* loaded object (add_order), += abs(amount) for "add", -= abs(amount) for
\* "reduce" (add_transaction; amounts are positive); the Transaction of
\* add_order is added; db.commit() flushes
\* UPDATE groups SET total_amount = <the new value of the object> together
\* with the pending rows, commits and gives the write lock back.
CommitAmount(m) ==
    LET amount == h_req[m].amount
        total == IF h_req[m].type = "reduce"
                 THEN h_group[m].total_amount - amount
                 ELSE h_group[m].total_amount + amount
    IN  /\ h_pc[m] = "loaded"
        /\ db_writer \in {NoTask, m}
        /\ groups' = [groups EXCEPT ![h_req[m].chat] = Group(total)]
        /\ orders' = IF h_req[m].type = "order" THEN orders \cup {m} ELSE orders
        /\ transactions' = transactions \cup {m}
        /\ db_writer' = NoTask
        /\ h_group' = [h_group EXCEPT ![m] = Group(total)]
        /\ h_pc' = [h_pc EXCEPT ![m] = "done"]
        /\ UNCHANGED h_req
        /\ UNCHANGED notDB

\* clear_group_data, one disjunct per database call that changes something.
clear_group_data(m) ==
    \* the two DELETE statements take the write lock
    \/ /\ h_pc[m] = "start"
       /\ h_req[m].type = "clear"
       /\ db_writer = NoTask
       /\ db_writer' = m
       /\ h_pc' = [h_pc EXCEPT ![m] = "deleting"]
       /\ UNCHANGED <<groups, orders, transactions, h_req, h_group>>
       /\ UNCHANGED notDB
    \* get_group, total_amount = 0 if there is a group, db.commit(),
    \* return True
    \/ /\ h_pc[m] = "deleting"
       /\ orders' = {o \in orders : h_req[o].chat # h_req[m].chat}
       /\ transactions' = {x \in transactions : h_req[x].chat # h_req[m].chat}
       /\ groups' = [groups EXCEPT ![h_req[m].chat] =
                        IF groups[h_req[m].chat] = None THEN None ELSE Group(0)]
       /\ db_writer' = NoTask
       /\ h_group' = [h_group EXCEPT ![m] = groups'[h_req[m].chat]]
       /\ h_pc' = [h_pc EXCEPT ![m] = "done"]
       /\ UNCHANGED h_req
       /\ UNCHANGED notDB

DBNext ==
    \E m \in Messages :
        \/ message_callback(m)
        \/ get_or_create_group(m)
        \/ CommitAmount(m)
        \/ clear_group_data(m)

\* ========================================================================
\* Further properties of RateLimiter, MessageQueue and SemaphoreLimiter
\* ========================================================================
\* the timestamps of key k that are not older than the window at `clock`
Unexpired(k, clock) ==
    SelectSeq(requests[k], LAMBDA ts : ts >= clock - time_window)

\* the step changes no history, except that it removes the timestamps of
\* key k that have expired at `clock`
PrunesOnly(k, clock) ==
    /\ requests'[k] = Unexpired(k, clock)
    /\ \A k2 \in Keys \ {k} : requests'[k2] = requests[k2]

\* C23: an is_allowed(key) call that returns false and every
\* get_remaining(key) call add no timestamp to any history: all they change
\* is that the expired timestamps of key are gone; get_remaining(key)
\* returns max_requests minus the number of unexpired timestamps of key,
\* which is between 0 and max_requests.
C23_NonRecordingCalls ==
    [][\A t \in Callers :
        /\ (IsAllowedLocked(t) /\ ~rl_log'[Len(rl_log')].ok)
               => PrunesOnly(rl_key[t], rl_now[t])
        /\ \A k \in Keys :
               GetRemaining(t, k)
               => /\ PrunesOnly(k, now)
                  /\ Remaining(requests'[k]) = max_requests - Len(Unexpired(k, now))
                  /\ Remaining(requests'[k]) \in 0..max_requests]_vars

\* an is_allowed(k) call has been denied, and a get_remaining(k) call made
\* later (at the time rl_last[k]) has pruned the history of k to a part of
\* the timestamps that were recorded
C23_Witness ==
    \E k \in Keys :
        /\ \E i \in DOMAIN rl_log : rl_log[i].key = k /\ ~rl_log[i].ok
        /\ \A i \in DOMAIN rl_log : rl_log[i].key = k => rl_log[i].time < rl_last[k]
        /\ requests[k] # <<>>
        /\ Len(requests[k]) < max_requests

\* C24: the queue never holds more than max_size items, and every put()
\* enqueues its item in the step in which it is called, with room for it:
\* `await self.queue.put(item)` (line 199) never finds the queue full, so
\* the producer never waits for a worker, however puts and dequeues
\* interleave.
C24_CapacityAndNonBlockingPut ==
    /\ [](Len(queue) <= max_size)
    /\ [][put_count' # put_count
             => /\ queue' # <<>>
                /\ queue'[Len(queue')] = put_count'
                /\ fate'[put_count'] = "queued"
                /\ ~QueueFull(SubSeq(queue', 1, Len(queue') - 1))]_vars

\* while workers have dequeued items, a put() has found the queue full, has
\* evicted, and the queue is full again
C24_Witness ==
    /\ \E i \in Items : handler_of[i] # NoTask
    /\ dropped_count >= 1
    /\ Len(queue) = max_size
    /\ put_count > max_size + 1

\* C25: stop() always returns; once it has returned, running is false, no
\* worker loop is alive, no handler invocation starts any more, and the
\* queue is as stop() found it until the next put(): neither the steps of
\* stop() nor anything after its return takes an item out of the queue or
\* hands one to the handler.
C25_StoppedState ==
    /\ (stop_pc = "gathering") ~> (stop_pc = "returned")
    /\ [](stop_pc = "returned"
            => /\ ~running
               /\ LiveWorkers = {}
               /\ worker_tasks = {}
               /\ \A n \in DOMAIN queue : fate[queue[n]] = "queued")
    /\ [][/\ stop_pc' # stop_pc => queue' = queue /\ handler_of' = handler_of
          /\ stop_pc = "returned"
               => /\ handler_of' = handler_of
                  /\ put_count' = put_count => queue' = queue]_vars

\* stop() has returned after a worker had handled an item, and an item is
\* still in the queue
C25_Witness ==
    /\ stop_pc = "returned"
    /\ queue # <<>>
    /\ \E i \in Items : fate[i] \in {"processed", "cancelled"}

\* task t is in acquire(): waiting for a permit, woken, or on its way to the
\* counters
SemPending(t) == sem_pc[t] \in {"acq_wait", "acq_woken", "acq_lock", "acq_count"}

\* task t stands before task u among the waiters of the semaphore
WaitsBefore(t, u) ==
    \E n, m \in DOMAIN sem_waiters :
        n < m /\ sem_waiters[n] = t /\ sem_waiters[m] = u

\* C26: with every ready task run in turn and every holder of a permit
\* calling release() at some time, every acquire() that has been called
\* returns; no waiter is overtaken: a task gets a permit while another one
\* waits only if it has waited longer.
C26_NoStarvation ==
    /\ \A t \in Tasks : SemPending(t) ~> (sem_pc[t] = "held")
    /\ [][\A t, u \in Tasks :
            (/\ sem_pc[t] = "acq_wait"
             /\ u # t
             /\ u \notin SemPermitOwners
             /\ u \in SemPermitOwners')
            => WaitsBefore(u, t)]_vars

\* all permits are held, two tasks wait, and the one that came first has
\* been handed the permit of a release() while the other still waits
C26_Witness ==
    \E t, u \in Tasks :
        /\ WaitsBefore(t, u)
        /\ sem_pc[t] = "acq_woken"
        /\ sem_pc[u] = "acq_wait"
        /\ semaphore = 0

\* the items in the queue
Queued == {queue[n] : n \in DOMAIN queue}

\* C27: items are numbered in put() order.  The queue holds them in that
\* order; an item is handed to the handler at most once (the worker that
\* dequeued it never changes), and only from the queue, never after its
\* eviction; the item a worker dequeues and the item a put() evicts is the
\* one enqueued earliest among those queued.
C27_FifoAtMostOnce ==
    /\ [](\A n, m \in DOMAIN queue : n < m => queue[n] < queue[m])
    /\ [][\A i \in Items :
            /\ handler_of[i] # NoTask => handler_of'[i] = handler_of[i]
            /\ fate[i] = "evicted"
                 => fate'[i] = "evicted" /\ handler_of'[i] = NoTask
            /\ (handler_of'[i] # handler_of[i] \/ (fate'[i] = "evicted" /\ fate[i] # "evicted"))
                 => /\ fate[i] = "queued"
                    /\ i \in Queued
                    /\ \A j \in Queued : i <= j]_vars

\* an item was evicted, a later one was handled by one worker and a still
\* later one by the other, and an item is in the queue
C27_Witness ==
    \E i, j, k \in Items :
        /\ i < j /\ j < k
        /\ fate[i] = "evicted"
        /\ handler_of[j] # NoTask
        /\ handler_of[k] \notin {NoTask, handler_of[j]}
        /\ queue # <<>>

\* C28: the timestamps of every key are stored in non-decreasing order in
\* every state, with is_allowed() calls of several callers interleaved
\* (each reads the clock before it takes the lock and appends that value
\* under the lock); so the pruning loop, which stops at the first timestamp
\* that has not expired, leaves none that has: after a call on key k at the
\* clock value rl_last[k], no timestamp of k is older than the window.
C28_TimestampsOrdered ==
    /\ [](\A k \in Keys : \A n, m \in DOMAIN requests[k] :
              n < m => requests[k][n] <= requests[k][m])
    /\ [][\A k \in Keys :
            (requests'[k] # requests[k] \/ rl_last'[k] # rl_last[k])
            => \A n \in DOMAIN requests'[k] :
                   requests'[k][n] >= rl_last'[k] - time_window]_vars

\* a caller has read the clock and not yet taken the lock, the clock has
\* moved on since, and the history of its key holds timestamps of earlier
\* calls, the last of them made at the clock value the caller read
C28_Witness ==
    \E t \in Callers :
        /\ rl_pc[t] = "ia_lock"
        /\ rl_now[t] < now
        /\ Len(requests[rl_key[t]]) >= 1
        /\ requests[rl_key[t]][Len(requests[rl_key[t]])] = rl_now[t]

\* the items a put() has evicted
Evicted == {i \in Items : fate[i] = "evicted"}

\* C29: dropped_count is the number of items put()'s eviction step has
\* removed from the queue, in every state; each increment of dropped_count
\* happens in a put() that evicts exactly one item, and each eviction in a
\* put() that increments it, with workers dequeuing between the puts.
C29_DroppedCountExact ==
    /\ [](dropped_count = Cardinality(Evicted))
    /\ [][(dropped_count' # dropped_count \/ Evicted' # Evicted)
            => /\ put_count' = put_count + 1
               /\ dropped_count' = dropped_count + 1
               /\ Evicted \subseteq Evicted'
               /\ Cardinality(Evicted' \ Evicted) = 1
               /\ Len(queue') = max_size]_vars

\* a worker has dequeued an item, the queue has filled up again, and a put()
\* has evicted an item enqueued after the dequeued one; a worker is inside
\* the handler
C29_Witness ==
    \E j, i \in Items :
        /\ j < i
        /\ handler_of[j] # NoTask
        /\ fate[i] = "evicted"
        /\ dropped_count = 1
        /\ \E w \in Workers : w_pc[w] = "handling"

\* ------------------------------------------------------------------------
\* Ledger consistency
\* ------------------------------------------------------------------------
\* the amounts of the Transaction rows S: 'order' and 'add' count up,
\* 'reduce' counts down
RECURSIVE LedgerSum(_)
LedgerSum(S) ==
    IF S = {} THEN 0
    ELSE LET m == CHOOSE x \in S : TRUE
             rest == LedgerSum(S \ {m})
         IN  IF h_req[m].type \in {"order", "add"}
             THEN rest + h_req[m].amount
             ELSE rest - h_req[m].amount

\* the Transaction rows of chat c; clear_group_data deletes all of them, so
\* these are the ones recorded since the last clear
TransactionsOf(c) == {m \in transactions : h_req[m].chat = c}

OrdersOf(c) == {m \in orders : h_req[m].chat = c}

\* no handler is between its first and its last database call
NoHandlerRunning == \A m \in Messages : h_pc[m] \in {"new", "done"}

Init == LoopInit /\ SemInit /\ RLInit /\ MQInit /\ TextInit /\ DBInit

SpecSem == Init /\ [][SemNext]_vars

\* The event loop runs every task that is ready, in turn: a running task
\* goes on to its next suspension, a woken waiter is resumed however often
\* other tasks run in between, and every holder of a permit ends its
\* section at some time.
SpecSemLive ==
    /\ Init /\ [][SemNext]_vars
    /\ \A t \in Tasks :
           /\ SF_vars(SemaphoreWake(t))
           /\ SF_vars(\E exc \in BOOLEAN : SectionExit(t, exc))
           /\ WF_vars(AcquireLock(t))
           /\ WF_vars(AcquireCount(t))
           /\ WF_vars(ReleaseLock(t))
           /\ WF_vars(ReleaseCount(t))
           /\ WF_vars(SemYield(t))
SpecRL == Init /\ [][RLNext]_vars
SpecMQ == Init /\ [][MQNext]_vars

\* The event loop runs every task that is ready: a cancelled worker task is
\* resumed (task.cancel() schedules it), and stop() is resumed when the
\* tasks it gathers have ended.
SpecMQLive ==
    /\ Init /\ [][MQNext]_vars
    /\ \A w \in Workers : WF_vars(WorkerCancelled(w))
    /\ WF_vars(StopReturns)
SpecParse == Init /\ [][ParseNext]_vars
SpecEval == Init /\ [][EvalNext]_vars
SpecClean == Init /\ [][CleanNext]_vars
SpecDB == Init /\ [][DBNext]_vars

====
